---------------------------- MODULE Spec2Model ----------------------------
(***************************************************************************)
(* Petly: real-time presence registry, chat rooms and fan-out, community   *)
(* membership and post voting, modelled from the JavaScript sources.       *)
(*                                                                         *)
(* Identifiers (user ids, community ids, post ids, socket ids) are small   *)
(* naturals.  A MongoDB ObjectId prints as a fixed-width hexadecimal       *)
(* string, so the lexicographic order of the printed ids is the numeric    *)
(* order of the naturals used here.  Map keys (the presence registry) are  *)
(* compared by value.                                                      *)
(*                                                                         *)
(* The Node.js event loop runs every synchronous stretch of code           *)
(* atomically; an `await` ends the stretch.  One action of this module is  *)
(* one such stretch together with the database operation it issues.        *)
(***************************************************************************)
EXTENDS Integers, Sequences, FiniteSets, Bags, TLC

\* ------------------------------------------------------------------ bounds
NumUsers == 2
NumSockets == 2
NumCommunities == 1
NumCalls == 2
\* Status writes / community lookups that may be in flight at once.
MaxPending == 3

Users == 1..NumUsers
Sockets == 1..NumSockets
Communities == 1..NumCommunities
Calls == 1..NumCalls

\* Posts of the posts collection.
NumPosts == 1
Posts == 1..NumPosts

\* Messages the messages collection may hold.
MaxMessages == 1
\* Saves a community document may take (its version counter).
MaxVersion == 2

\* Titles an edit can give a post, and the clock's last value, in steps of 4.5
\* hours.
NumTitles == 2
Titles == 1..NumTitles
MaxTime == 2
\* Entries a user's communities array may hold.
MaxMemberships == 2
\* How far below zero deletePost calls may take a community's post counter.
MaxDrift == 1
\* loginUser: the failed attempts that lock an account, and the time the lock
\* lasts (15 minutes), which is over by the next step of the clock.
MaxLoginAttempts == 5
LockTime == 1
\* generateTokens / refreshAuth: the life of a refresh token (7 days), in steps
\* of the clock, rounded up.
TokenLife == 38
\* Documents the tokens collection may hold.
MaxTokens == 3
\* A token string that no document has.
NoSuchToken == 0
\* Failed attempts an account may have on record when a further login starts.
MaxAttempts == 6
\* The account that logs in where logins are followed.
LoginUsers == {1}
\* getCommunityMessages / getDirectMessages: the default page size.
FetchLimit == 50
\* The messages of a history, and the entries of deletedFor the model follows.
MaxHistory == 2
MaxDeletedFor == 1

\* A community id that no document has (Community.findById resolves null).
NoSuchCommunity == 0
\* A post id that no document has (Post.findById resolves null).
NoSuchPost == 0
\* A user id that no document has (User.findById resolves null).
NoSuchUser == 0
\* A message id that no document has (Message.findById resolves null).
NoSuchMessage == 0
\* A payload field that was not sent (communityId / receiverId undefined).
Absent == -1

VARIABLES
    sockState,      \* socket id -> "fresh" | "open" | "closed" (socket.io connection)
    sockUser,       \* socket id -> socket.user._id of the connection (0 before it connects)
    rooms,          \* socket id -> set of socket.io rooms the connection is in
    userSockets,    \* PresenceHandler.userSockets: Map userId -> Set of socket ids
    pendingStatus,  \* bag of User.findByIdAndUpdate status writes issued and not yet applied
    pendingNotify,  \* bag of notifyCommunities calls awaiting User.findById
    dbUsers,        \* users collection: userId -> [isOnline, communities]
    dbCommunities,  \* communities collection: id -> [isActive, owner, members, memberCount, version]
    dbMessages,     \* messages collection, in creation order (message id = index)
    dbPosts,        \* posts collection: id -> post document
    cache,          \* the cache service: set of entries [key, val]
    now,            \* the clock, in steps of 4.5 hours (Date.now())
    dbTokens,       \* tokens collection, in creation order (the token string = index)
    calls,          \* service calls in flight (REST): call id -> call record
    handlers,       \* socket id -> the event handler of that socket awaiting, as a call record
    emitted,        \* bag of socket.io packets delivered by the last step: [ev, to, from, arg]
    last            \* what the last step was and what it issued (history)

vars == <<sockState, sockUser, rooms, userSockets, pendingStatus, pendingNotify,
          dbUsers, dbCommunities, dbMessages, dbPosts, cache, now, dbTokens, calls,
          handlers, emitted, last>>

\* ------------------------------------------------------------ socket.io
UserRoom(u) == <<"user", u>>
PresenceRoom(u) == <<"presence", u>>
CommunityRoom(c) == <<"community", c>>
CommunityPresenceRoom(c) == <<"community:presence", c>>

\* The connections a room currently reaches.
InRoom(r) == {t \in Sockets : sockState[t] = "open" /\ r \in rooms[t]}

Packets(ev, targets, from, arg) ==
    SetToBag({[ev |-> ev, to |-> t, from |-> from, arg |-> arg] : t \in targets})

\* socket.emit(ev, ...): to the connection itself.
SocketEmit(s, ev, from, arg) ==
    Packets(ev, {t \in {s} : sockState[t] = "open"}, from, arg)

\* socket.to(room).emit(ev, ...): to every connection of the room but the sender.
SocketToEmit(s, r, ev, from, arg) == Packets(ev, InRoom(r) \ {s}, from, arg)

\* io.to(room).emit(ev, ...): to every connection of the room.
IoToEmit(r, ev, from, arg) == Packets(ev, InRoom(r), from, arg)

Received(t, ev) ==
    LET hits == {p \in BagToSet(emitted) : p.to = t /\ p.ev = ev}
        RECURSIVE Sum(_)
        Sum(S) == IF S = {} THEN 0
                  ELSE LET p == CHOOSE x \in S : TRUE
                       IN CopiesIn(p, emitted) + Sum(S \ {p})
    IN Sum(hits)

NoOp == [op |-> "none", sock |-> 0, user |-> 0, target |-> 0,
         status |-> <<>>, notify |-> <<>>, rooms |-> <<>>, result |-> "none"]

\* A null document, and a call slot that runs nothing.
NullDoc == [isActive |-> FALSE, owner |-> 0, members |-> <<>>, moderators |-> <<>>,
            privacy |-> "public", joinMethod |-> "open", memberCount |-> 0,
            postCount |-> 0, slug |-> 0, postPermissions |-> "all", version |-> 0]

Idle == [op |-> "idle", pc |-> "idle", sock |-> 0, user |-> 0, community |-> Absent,
         receiver |-> Absent, post |-> Absent, vote |-> "none",
         snap |-> [found |-> FALSE, doc |-> NullDoc],
         csnap |-> [found |-> FALSE, doc |-> NullDoc], data |-> <<>>,
         todo |-> <<>>, cleared |-> {}, msg |-> 0]

\* ------------------------------------------------------- presence registry
isUserOnline(u) == u \in DOMAIN userSockets /\ Cardinality(userSockets[u]) > 0

getUserSockets(u) == IF u \in DOMAIN userSockets THEN userSockets[u] ELSE {}

\* Mutant: the user's set is replaced instead of extended (a lost update).
RegistryAfterConnect_overwrite(s, u) ==
    [x \in DOMAIN userSockets \cup {u} |-> IF x = u THEN {s} ELSE userSockets[x]]

\* The registry after handleConnect's Map/Set updates.
RegistryAfterConnect(s, u) ==
    LET withEntry == IF u \in DOMAIN userSockets THEN userSockets
                     ELSE [x \in DOMAIN userSockets \cup {u} |->
                              IF x = u THEN {} ELSE userSockets[x]]
    IN [withEntry EXCEPT ![u] = @ \cup {s}]

\* Bound of the model: a connection event is taken up only while fewer than
\* MaxPending status writes and community lookups are in flight.
PendingRoom ==
    BagCardinality(pendingStatus) + BagCardinality(pendingNotify) < MaxPending

\* Mutant: the status write and the notification on every connect (no size test).
handleConnect_always(s, u) ==
    LET issued == <<[user |-> u, isOnline |-> TRUE]>>
    IN /\ userSockets' = RegistryAfterConnect(s, u)
       /\ pendingStatus' = pendingStatus (+) SetToBag({issued[1]})
       /\ pendingNotify' = pendingNotify (+) SetToBag({issued[1]})
       /\ last' = [NoOp EXCEPT !.op = "connect", !.sock = s, !.user = u,
                               !.status = issued, !.notify = issued]

\* PresenceHandler.handleConnect(socket, userId): the registry update, and on the
\* first socket the status write and the community notification it starts.
handleConnect(s, u) ==
    LET reg == RegistryAfterConnect(s, u)
        first == Cardinality(reg[u]) = 1
        issued == IF first THEN <<[user |-> u, isOnline |-> TRUE]>> ELSE <<>>
    IN /\ userSockets' = reg
       /\ pendingStatus' = IF first THEN pendingStatus (+) SetToBag({issued[1]})
                           ELSE pendingStatus
       /\ pendingNotify' = IF first THEN pendingNotify (+) SetToBag({issued[1]})
                           ELSE pendingNotify
       /\ last' = [NoOp EXCEPT !.op = "connect", !.sock = s, !.user = u,
                               !.status = issued, !.notify = issued]

\* io.on('connection'): join the personal rooms, then handleConnect.
Connection(s, u) ==
    /\ sockState[s] = "fresh"
    /\ PendingRoom
    /\ sockState' = [sockState EXCEPT ![s] = "open"]
    /\ sockUser' = [sockUser EXCEPT ![s] = u]
    /\ rooms' = [rooms EXCEPT ![s] = {UserRoom(u), PresenceRoom(u)}]
    /\ handleConnect(s, u)
    /\ emitted' = EmptyBag
    /\ UNCHANGED <<dbUsers, dbCommunities, dbMessages, calls, handlers, dbPosts, cache, now,
                   dbTokens>>

\* Mutant: the emptied entry is kept in the Map (userSockets.delete left out).
handleDisconnect_keepEntry(s, u) ==
    IF u \in DOMAIN userSockets
    THEN LET left == userSockets[u] \ {s}
             empty == Cardinality(left) = 0
             issued == IF empty THEN <<[user |-> u, isOnline |-> FALSE]>> ELSE <<>>
         IN /\ userSockets' = [userSockets EXCEPT ![u] = left]
            /\ pendingStatus' = IF empty THEN pendingStatus (+) SetToBag({issued[1]})
                                ELSE pendingStatus
            /\ pendingNotify' = IF empty THEN pendingNotify (+) SetToBag({issued[1]})
                                ELSE pendingNotify
            /\ last' = [NoOp EXCEPT !.op = "disconnect", !.sock = s, !.user = u,
                                    !.status = issued, !.notify = issued]
    ELSE /\ UNCHANGED <<userSockets, pendingStatus, pendingNotify>>
         /\ last' = [NoOp EXCEPT !.op = "disconnect", !.sock = s, !.user = u]

\* PresenceHandler.handleDisconnect(socket, userId).
handleDisconnect(s, u) ==
    IF u \in DOMAIN userSockets
    THEN LET left == userSockets[u] \ {s}
             empty == Cardinality(left) = 0
             issued == IF empty THEN <<[user |-> u, isOnline |-> FALSE]>> ELSE <<>>
         IN /\ userSockets' = IF empty
                              THEN [x \in DOMAIN userSockets \ {u} |-> userSockets[x]]
                              ELSE [userSockets EXCEPT ![u] = left]
            /\ pendingStatus' = IF empty THEN pendingStatus (+) SetToBag({issued[1]})
                                ELSE pendingStatus
            /\ pendingNotify' = IF empty THEN pendingNotify (+) SetToBag({issued[1]})
                                ELSE pendingNotify
            /\ last' = [NoOp EXCEPT !.op = "disconnect", !.sock = s, !.user = u,
                                    !.status = issued, !.notify = issued]
    ELSE /\ UNCHANGED <<userSockets, pendingStatus, pendingNotify>>
         /\ last' = [NoOp EXCEPT !.op = "disconnect", !.sock = s, !.user = u]

\* socket.on('disconnect'): socket.io has already taken the connection out of
\* every room; then handleDisconnect.
Disconnect(s) ==
    /\ sockState[s] = "open"
    /\ PendingRoom
    /\ sockState' = [sockState EXCEPT ![s] = "closed"]
    /\ rooms' = [rooms EXCEPT ![s] = {}]
    /\ handleDisconnect(s, sockUser[s])
    /\ emitted' = EmptyBag
    /\ UNCHANGED <<sockUser, dbUsers, dbCommunities, dbMessages, calls, handlers,
            dbPosts, cache, now, dbTokens>>

\* updateUserStatus: the awaited User.findByIdAndUpdate is applied by the database.
\* Writes issued by different calls complete in any order.
updateUserStatus(w) ==
    /\ BagIn(w, pendingStatus)
    /\ pendingStatus' = pendingStatus (-) SetToBag({w})
    /\ dbUsers' = [dbUsers EXCEPT ![w.user].isOnline = w.isOnline]
    /\ emitted' = EmptyBag
    /\ last' = [NoOp EXCEPT !.op = "statusWrite", !.user = w.user]
    /\ UNCHANGED <<sockState, sockUser, rooms, userSockets, pendingNotify,
                   dbCommunities, dbMessages, calls, handlers, dbPosts, cache, now,
                   dbTokens>>

\* require('../../../config/socket').getIO: config/socket.js exports the class
\* SocketServer, and getIO is a method of its instances, so the module object has
\* no getIO function and calling it throws a TypeError.
ModuleHasGetIO == FALSE

\* The rooms notifyCommunities emits user_presence to: forEach over the user's
\* communities, each iteration calling getIO() first.  The TypeError of the first
\* iteration leaves forEach and is caught and logged by notifyCommunities.
PresenceRooms(cs) ==
    IF ModuleHasGetIO THEN [i \in 1..Len(cs) |-> CommunityPresenceRoom(cs[i])]
    ELSE <<>>

RECURSIVE PresencePackets(_, _)
PresencePackets(rs, n) ==
    IF rs = <<>> THEN EmptyBag
    ELSE IoToEmit(Head(rs), "user_presence", n.user, IF n.isOnline THEN 1 ELSE 0)
         (+) PresencePackets(Tail(rs), n)

\* notifyCommunities after its await: User.findById(...).populate resolved.
notifyCommunities(n) ==
    LET cs == dbUsers[n.user].communities
        threw == cs # <<>> /\ ~ModuleHasGetIO
    IN /\ BagIn(n, pendingNotify)
       /\ pendingNotify' = pendingNotify (-) SetToBag({n})
       /\ emitted' = PresencePackets(PresenceRooms(cs), n)
       /\ last' = [NoOp EXCEPT !.op = "notify", !.user = n.user, !.notify = <<n>>,
                               !.rooms = PresenceRooms(cs),
                               !.result = IF threw THEN "logged" ELSE "ok"]
       /\ UNCHANGED <<sockState, sockUser, rooms, userSockets, pendingStatus,
                      dbUsers, dbCommunities, dbMessages, calls, handlers,
                      dbPosts, cache, now, dbTokens>>

\* A post as createPost leaves it: written by user 1 in community 1 at time 0,
\* not deleted, not pinned, no votes, no comments, score 0.  scoredAt is
\* history: the time the pre-save hook last ran on the stored document.
NewPost ==
    [exists |-> TRUE, isDeleted |-> FALSE, community |-> 1, author |-> 1,
     title |-> 1, isPinned |-> FALSE, commentCount |-> 0, createdAt |-> 0,
     score |-> 0, scoredAt |-> 0, upvotes |-> <<>>, downvotes |-> <<>>,
     aiAnalysis |-> <<>>]

\* The posts of community c that exist and are not soft deleted.
LivePosts(posts, c) ==
    Cardinality({p \in Posts : /\ posts[p].exists
                               /\ ~posts[p].isDeleted
                               /\ posts[p].community = c})

\* ----------------------------------------------------------- chat handler
\* Community.findById(c) as the database answers it.
FindCommunity(c) ==
    IF c \in Communities THEN [found |-> TRUE, doc |-> dbCommunities[c]]
    ELSE [found |-> FALSE, doc |-> NullDoc]

\* community.members.some(member => member.user.toString() === userId.toString())
IsMember(doc, u) == \E i \in 1..Len(doc.members) : doc.members[i].user = u

Awaiting == [NoOp EXCEPT !.op = "await"]

\* A handler's catch block: socket.emit('error', ...) to the originating socket.
CatchEmitError(s, ev) ==
    /\ emitted' = SocketEmit(handlers[s].sock, "error", 0, 0)
    /\ last' = [NoOp EXCEPT !.op = ev, !.sock = handlers[s].sock, !.user = handlers[s].user,
                            !.target = handlers[s].community, !.result = "threw"]

\* A guard clause of a handler: socket.emit('error', ...) and return.
RejectEmitError(s, ev, why) ==
    /\ emitted' = SocketEmit(handlers[s].sock, "error", 0, 0)
    /\ last' = [NoOp EXCEPT !.op = ev, !.sock = handlers[s].sock, !.user = handlers[s].user,
                            !.target = handlers[s].community, !.result = why]

\* handleJoinCommunity up to its await: Community.findById(communityId) is issued
\* and answered by the database.
JoinCommunityFind(s, c) ==
    /\ handlers[s].op = "idle"
    /\ sockState[s] = "open"
    /\ handlers' = [handlers EXCEPT ![s] =
                   [Idle EXCEPT !.op = "join_community", !.pc = "findById", !.sock = s,
                                !.user = sockUser[s], !.community = c,
                                !.snap = FindCommunity(c)]]
    /\ emitted' = EmptyBag
    /\ last' = Awaiting
    /\ UNCHANGED <<sockState, sockUser, rooms, userSockets, pendingStatus,
                   pendingNotify, dbUsers, dbCommunities, dbMessages, calls,
                   dbPosts, cache, now, dbTokens>>

\* Mutant: the membership test is left out.
JoinCommunityAdmit_noMemberTest(s, threw) ==
    LET c == handlers[s] IN
    /\ c.op = "join_community"
    /\ handlers' = [handlers EXCEPT ![s] = Idle]
    /\ IF threw
       THEN CatchEmitError(s, "join_community") /\ UNCHANGED rooms
       ELSE IF ~c.snap.found
       THEN RejectEmitError(s, "join_community", "not_found") /\ UNCHANGED rooms
       ELSE /\ rooms' = [rooms EXCEPT ![c.sock] =
                           @ \cup {CommunityRoom(c.community),
                                   CommunityPresenceRoom(c.community)}]
            /\ emitted' = SocketToEmit(c.sock, CommunityPresenceRoom(c.community),
                                       "user_joined", c.user, c.community)
            /\ last' = [NoOp EXCEPT !.op = "join_community", !.sock = c.sock,
                                    !.user = c.user, !.target = c.community,
                                    !.result = "joined"]
    /\ UNCHANGED <<sockState, sockUser, userSockets, pendingStatus, pendingNotify,
                   dbUsers, dbCommunities, dbMessages, calls, dbPosts, cache, now,
                   dbTokens>>

\* handleJoinCommunity after its await.  threw: the lookup rejected.
JoinCommunityAdmit(s, threw) ==
    LET c == handlers[s] IN
    /\ c.op = "join_community"
    /\ handlers' = [handlers EXCEPT ![s] = Idle]
    /\ IF threw
       THEN CatchEmitError(s, "join_community") /\ UNCHANGED rooms
       ELSE IF ~c.snap.found
       THEN RejectEmitError(s, "join_community", "not_found") /\ UNCHANGED rooms
       ELSE IF ~IsMember(c.snap.doc, c.user)
       THEN RejectEmitError(s, "join_community", "not_member") /\ UNCHANGED rooms
       ELSE /\ rooms' = [rooms EXCEPT ![c.sock] =
                           @ \cup {CommunityRoom(c.community),
                                   CommunityPresenceRoom(c.community)}]
            /\ emitted' = SocketToEmit(c.sock, CommunityPresenceRoom(c.community),
                                       "user_joined", c.user, c.community)
            /\ last' = [NoOp EXCEPT !.op = "join_community", !.sock = c.sock,
                                    !.user = c.user, !.target = c.community,
                                    !.result = "joined"]
    /\ UNCHANGED <<sockState, sockUser, userSockets, pendingStatus, pendingNotify,
                   dbUsers, dbCommunities, dbMessages, calls, dbPosts, cache, now,
                   dbTokens>>

\* handleLeaveCommunity: no await, no membership test.
handleLeaveCommunity(s, c) ==
    /\ sockState[s] = "open"
    /\ rooms' = [rooms EXCEPT ![s] = @ \ {CommunityRoom(c), CommunityPresenceRoom(c)}]
    /\ emitted' = SocketToEmit(s, CommunityPresenceRoom(c), "user_left", sockUser[s], c)
    /\ last' = [NoOp EXCEPT !.op = "leave_community", !.sock = s,
                            !.user = sockUser[s], !.target = c, !.result = "left"]
    /\ UNCHANGED <<sockState, sockUser, userSockets, pendingStatus, pendingNotify,
                   dbUsers, dbCommunities, dbMessages, calls, handlers,
                   dbPosts, cache, now, dbTokens>>

\* ------------------------------------------------------------ chat service
\* ChatService.getDirectMessageChannel: the two ids sorted, 'dm:<first>:<second>'.
\* The ids are ObjectIds, whose strings all have 24 hexadecimal digits, so the
\* order of the strings is the order of the ids.
getDirectMessageChannel_asGiven(a, b) == <<"dm", a, b>>

getDirectMessageChannel(a, b) == IF a <= b THEN <<"dm", a, b>> ELSE <<"dm", b, a>>

\* sendMessage's validation of the recipient: the status of the ApiError it
\* throws, "ok" when it throws none.
ValidateRecipient_neitherOnly(c, r) ==
    IF c = Absent /\ r = Absent THEN "400" ELSE "ok"

ValidateRecipient(c, r) ==
    IF c = Absent /\ r = Absent THEN "400"
    ELSE IF c # Absent /\ r # Absent THEN "400"
    ELSE "ok"

\* handleSendMessage -> ChatService.sendMessage up to the recipient lookup:
\* the recipient validation, the moderation call (its verdict, whatever it is,
\* is caught and logged inside sendMessage), then Community.findById or
\* User.findById.  ai: "skipped" (content of at most 10 characters), "clean",
\* "flagged" or "unavailable".
SendMessageLookup(s, c, r) ==
    /\ handlers[s].op = "idle"
    /\ sockState[s] = "open"
    /\ IF ValidateRecipient(c, r) # "ok"
       THEN /\ handlers' = handlers
            /\ emitted' = SocketEmit(s, "error", 0, 0)
            /\ last' = [NoOp EXCEPT !.op = "send_message", !.sock = s,
                                    !.user = sockUser[s], !.target = c,
                                    !.status = <<ValidateRecipient(c, r), c, r>>,
                                    !.result = "threw"]
       ELSE /\ handlers' = [handlers EXCEPT ![s] =
                   [Idle EXCEPT !.op = "send_message", !.pc = "lookup", !.sock = s,
                                !.user = sockUser[s], !.community = c, !.receiver = r,
                                !.snap = IF c # Absent THEN FindCommunity(c)
                                         ELSE [found |-> r \in Users, doc |-> NullDoc]]]
            /\ emitted' = EmptyBag
            /\ last' = Awaiting
    /\ UNCHANGED <<sockState, sockUser, rooms, userSockets, pendingStatus,
                   pendingNotify, dbUsers, dbCommunities, dbMessages, calls,
                   dbPosts, cache, now, dbTokens>>

\* Whether sendMessage goes on to Message.create with what the lookup returned.
SendAllowed(c) ==
    IF c.community # Absent
    THEN c.snap.found /\ c.snap.doc.isActive /\ IsMember(c.snap.doc, c.user)
    ELSE c.snap.found

\* The document Message.create stores.
NewMessage(c, ai) ==
    [sender |-> c.user,
     community |-> c.community,
     receiver |-> IF c.community # Absent THEN Absent ELSE c.receiver,
     channel |-> IF c.community # Absent THEN CommunityRoom(c.community)
                 ELSE getDirectMessageChannel(c.user, c.receiver),
     aiAnalysis |-> ai # "skipped",
     deliveredTo |-> <<c.user>>,
     readBy |-> <<>>,
     reactions |-> <<>>,
     isDeleted |-> FALSE,
     deletedFor |-> <<>>]

\* sendMessage after the lookup: the checks, then Message.create.  threw: a
\* database operation rejected.
SendMessageCreate(s, threw, ai) ==
    LET c == handlers[s] IN
    /\ c.op = "send_message"
    /\ c.pc # "created"
    /\ IF threw \/ ~SendAllowed(c)
       THEN /\ handlers' = [handlers EXCEPT ![s] = Idle]
            /\ CatchEmitError(s, "send_message")
            /\ UNCHANGED dbMessages
       ELSE /\ dbMessages' = Append(dbMessages, NewMessage(c, ai))
            /\ handlers' = [handlers EXCEPT ![s].pc = "created",
                                      ![s].msg = Len(dbMessages) + 1]
            /\ emitted' = EmptyBag
            /\ last' = Awaiting
    /\ UNCHANGED <<sockState, sockUser, rooms, userSockets, pendingStatus,
                   pendingNotify, dbUsers, dbCommunities, calls, dbPosts, cache, now,
                   dbTokens>>

\* Mutant: the community message goes to the whole room, the sender included.
CommunityFanOut_echo(s, c, m) ==
    IoToEmit(CommunityRoom(c.community), "new_message", c.user, m)

\* The packets of a community message: socket.to('community:<id>').emit.
CommunityFanOut(s, c, m) ==
    SocketToEmit(s, CommunityRoom(c.community), "new_message", c.user, m)

\* Mutant: the direct message is not sent to the receiver's inbox room.
DirectFanOut_noInbox(s, c, m) ==
    SocketEmit(s, "new_message", c.user, m)
    (+) SocketToEmit(s, getDirectMessageChannel(c.user, c.receiver),
                     "new_message", c.user, m)

\* The packets of a direct message: to the sending socket, to 'user:<receiver>'
\* and to the dm channel room.
DirectFanOut(s, c, m) ==
    SocketEmit(s, "new_message", c.user, m)
    (+) SocketToEmit(s, UserRoom(c.receiver), "new_message", c.user, m)
    (+) SocketToEmit(s, getDirectMessageChannel(c.user, c.receiver),
                     "new_message", c.user, m)

\* The rooms handleSendMessage addresses with socket.to(...).
FanOutRooms(c) ==
    IF c.community # Absent THEN <<CommunityRoom(c.community)>>
    ELSE <<UserRoom(c.receiver), getDirectMessageChannel(c.user, c.receiver)>>

\* handleSendMessage after sendMessage resolved: the new_message fan-out.
SendMessageEmit(s) ==
    LET c == handlers[s] IN
    /\ c.op = "send_message"
    /\ c.pc = "created"
    /\ handlers' = [handlers EXCEPT ![s] = Idle]
    /\ emitted' = IF c.community # Absent THEN CommunityFanOut(c.sock, c, c.msg)
                  ELSE DirectFanOut(c.sock, c, c.msg)
    /\ last' = [NoOp EXCEPT !.op = "send_message", !.sock = c.sock, !.user = c.user,
                            !.target = c.msg, !.rooms = FanOutRooms(c),
                            !.result = "sent"]
    /\ UNCHANGED <<sockState, sockUser, rooms, userSockets, pendingStatus,
                   pendingNotify, dbUsers, dbCommunities, dbMessages, calls,
                   dbPosts, cache, now, dbTokens>>

\* ---------------------------------------------------------- cache service
\* An id as it appears in a cache key.
IdStr(n) == ToString(n)

\* `post:${id}:${userId || 'anonymous'}`
PostKey(p, viewer) ==
    <<"post", IdStr(p), IF viewer = Absent THEN "anonymous" ELSE IdStr(viewer)>>

\* `community:${communityId}:posts:${filters}:${page}:${limit}:${sort}`
ListingKey(c, query) == <<"community", IdStr(c), "posts", query>>

\* The patterns the post service clears.
PostPattern(p) == <<"post", IdStr(p)>>
ListingPattern(c) == <<"community", IdStr(c), "posts">>
UserPostsPattern(u) == <<"user", IdStr(u), "posts">>

\* The keys of a cached community, by id and by slug, and the patterns the
\* community service clears.
CommunityKey(c, includeMembers) ==
    <<"community", IdStr(c), IF includeMembers THEN "true" ELSE "false">>
SlugKey(slug) == <<"community", "slug", IdStr(slug)>>
CommunityPattern(c) == <<"community", IdStr(c)>>
CommunitiesPattern == <<"communities">>
UserCommunitiesPattern(u) == <<"user", IdStr(u), "communities">>

\* A key matches the pattern 'a:b:*' when it starts with 'a:b:'.
Matches(key, prefix) ==
    /\ Len(key) >= Len(prefix)
    /\ SubSeq(key, 1, Len(prefix)) = prefix

\* get(key): the value, or absent.
CacheHit(key) == key \in DOMAIN cache

\* The cache after set(key, value, ttl).
CacheSet(key, val) ==
    [x \in DOMAIN cache \cup {key} |-> IF x = key THEN val ELSE cache[x]]

\* Mutant: clearPattern deletes nothing.
ClearPattern_keep(prefix) == cache

\* The cache after clearPattern(prefix + '*').
ClearPattern(prefix) ==
    [x \in {y \in DOMAIN cache : ~Matches(y, prefix)} |-> cache[x]]

\* ------------------------------------------------------ community service
\* The steps of a service call that ends by throwing an ApiError.
Throw(k, ev, why) ==
    /\ calls' = [calls EXCEPT ![k] = Idle]
    /\ last' = [NoOp EXCEPT !.op = ev, !.user = calls[k].user,
                            !.target = calls[k].community, !.result = why]

\* joinCommunity up to its first await: Community.findById.
joinCommunityFind(k, c, u) ==
    /\ calls[k].op = "idle"
    /\ \A x \in Communities : dbCommunities[x].version < MaxVersion
    /\ calls' = [calls EXCEPT ![k] =
                   [Idle EXCEPT !.op = "joinCommunity", !.pc = "findById", !.user = u,
                                !.community = c, !.snap = FindCommunity(c)]]
    /\ emitted' = EmptyBag
    /\ last' = Awaiting
    /\ UNCHANGED <<sockState, sockUser, rooms, userSockets, pendingStatus,
                   pendingNotify, dbUsers, dbCommunities, dbMessages, handlers,
                   dbPosts, cache, now, dbTokens>>

\* community.members.push({user: userId, role: 'member', joinedAt}).
PushMember_moderator(members, u) == Append(members, [user |-> u, role |-> "moderator"])

PushMember(members, u) == Append(members, [user |-> u, role |-> "member"])

\* joinCommunity from the lookup to community.save(): members.push is saved as
\* a $push, stats.memberCount as a $set of the value computed from the document
\* read, and the version is incremented.
joinCommunitySave(k) ==
    LET c == calls[k]
        doc == c.snap.doc
    IN
    /\ c.op = "joinCommunity"
    /\ c.pc = "findById"
    /\ emitted' = EmptyBag
    /\ IF ~c.snap.found THEN Throw(k, "joinCommunity", "404") /\ UNCHANGED dbCommunities
       ELSE IF ~doc.isActive THEN Throw(k, "joinCommunity", "400") /\ UNCHANGED dbCommunities
       ELSE IF IsMember(doc, c.user)
       THEN Throw(k, "joinCommunity", "409") /\ UNCHANGED dbCommunities
       ELSE IF doc.privacy = "private" \/ doc.joinMethod = "invite"
       THEN Throw(k, "joinCommunity", "403") /\ UNCHANGED dbCommunities
       ELSE /\ dbCommunities' =
                 [dbCommunities EXCEPT
                    ![c.community].members = PushMember(@, c.user),
                    ![c.community].memberCount = doc.memberCount + 1,
                    ![c.community].version = @ + 1]
            /\ calls' = [calls EXCEPT ![k].pc = "saved"]
            /\ last' = Awaiting
    /\ UNCHANGED <<sockState, sockUser, rooms, userSockets, pendingStatus,
                   pendingNotify, dbUsers, dbMessages, handlers, dbPosts, cache, now,
                   dbTokens>>

\* joinCommunity after the save: User.findByIdAndUpdate $push communities; the
\* cache clearing follows.
joinCommunityUser(k) ==
    LET c == calls[k] IN
    /\ c.op = "joinCommunity"
    /\ c.pc = "saved"
    /\ dbUsers' = [dbUsers EXCEPT ![c.user].communities = Append(@, c.community)]
    /\ calls' = [calls EXCEPT ![k].pc = "clear",
                              ![k].todo = <<CommunityPattern(c.community),
                                            UserCommunitiesPattern(c.user)>>]
    /\ emitted' = EmptyBag
    /\ last' = [NoOp EXCEPT !.op = "joinCommunity", !.user = c.user,
                            !.target = c.community, !.result = "ok"]
    /\ UNCHANGED <<sockState, sockUser, rooms, userSockets, pendingStatus,
                   pendingNotify, dbCommunities, dbMessages, handlers, dbPosts,
                   cache, now, dbTokens>>

\* array.splice(index, 1) on a sequence.
Splice(seq, i) == [j \in 1..(Len(seq) - 1) |-> IF j < i THEN seq[j] ELSE seq[j + 1]]

\* findIndex(x => x.user.toString() === userId.toString()), 0 for -1.
FindIndex(seq, u) ==
    IF \E i \in 1..Len(seq) : seq[i].user = u
    THEN CHOOSE i \in 1..Len(seq) :
             seq[i].user = u /\ \A j \in 1..(i - 1) : seq[j].user # u
    ELSE 0

\* community.owner.toString() === userId.toString()
IsOwner_never(doc, u) == FALSE

IsOwner(doc, u) == doc.owner = u

\* leaveCommunity up to its first await: Community.findById.
leaveCommunityFind(k, c, u) ==
    /\ calls[k].op = "idle"
    /\ \A x \in Communities : dbCommunities[x].version < MaxVersion
    /\ calls' = [calls EXCEPT ![k] =
                   [Idle EXCEPT !.op = "leaveCommunity", !.pc = "findById", !.user = u,
                                !.community = c, !.snap = FindCommunity(c)]]
    /\ emitted' = EmptyBag
    /\ last' = Awaiting
    /\ UNCHANGED <<sockState, sockUser, rooms, userSockets, pendingStatus,
                   pendingNotify, dbUsers, dbCommunities, dbMessages, handlers,
                   dbPosts, cache, now, dbTokens>>

\* leaveCommunity from the lookup to community.save(): the spliced arrays are
\* saved whole ($set) under the version read, so the save is refused with a
\* VersionError when the document's version has moved since.
leaveCommunitySave(k) ==
    LET c == calls[k]
        doc == c.snap.doc
        memberIndex == FindIndex(doc.members, c.user)
        moderatorIndex == FindIndex(doc.moderators, c.user)
    IN
    /\ c.op = "leaveCommunity"
    /\ c.pc = "findById"
    /\ emitted' = EmptyBag
    /\ IF ~c.snap.found THEN Throw(k, "leaveCommunity", "404") /\ UNCHANGED dbCommunities
       ELSE IF memberIndex = 0
       THEN Throw(k, "leaveCommunity", "400") /\ UNCHANGED dbCommunities
       ELSE IF IsOwner(doc, c.user)
       THEN Throw(k, "leaveCommunity", "owner") /\ UNCHANGED dbCommunities
       ELSE IF dbCommunities[c.community].version # doc.version
       THEN Throw(k, "leaveCommunity", "VersionError") /\ UNCHANGED dbCommunities
       ELSE /\ dbCommunities' =
                 [dbCommunities EXCEPT
                    ![c.community].members = Splice(doc.members, memberIndex),
                    ![c.community].moderators =
                        IF moderatorIndex # 0 THEN Splice(doc.moderators, moderatorIndex)
                        ELSE @,
                    ![c.community].memberCount = doc.memberCount - 1,
                    ![c.community].version = @ + 1]
            /\ calls' = [calls EXCEPT ![k].pc = "saved"]
            /\ last' = Awaiting
    /\ UNCHANGED <<sockState, sockUser, rooms, userSockets, pendingStatus,
                   pendingNotify, dbUsers, dbMessages, handlers, dbPosts, cache, now,
                   dbTokens>>

\* $pull: every element of the array that matches is removed.
RECURSIVE Pull(_, _)
Pull(seq, x) ==
    IF seq = <<>> THEN <<>>
    ELSE IF Head(seq) = x THEN Pull(Tail(seq), x)
    ELSE <<Head(seq)>> \o Pull(Tail(seq), x)

\* leaveCommunity after the save: User.findByIdAndUpdate $pull communities; the
\* cache clearing follows.
leaveCommunityUser(k) ==
    LET c == calls[k] IN
    /\ c.op = "leaveCommunity"
    /\ c.pc = "saved"
    /\ dbUsers' = [dbUsers EXCEPT ![c.user].communities = Pull(@, c.community)]
    /\ calls' = [calls EXCEPT ![k].pc = "clear",
                              ![k].todo = <<CommunityPattern(c.community),
                                            UserCommunitiesPattern(c.user)>>]
    /\ emitted' = EmptyBag
    /\ last' = [NoOp EXCEPT !.op = "leaveCommunity", !.user = c.user,
                            !.target = c.community, !.result = "ok"]
    /\ UNCHANGED <<sockState, sockUser, rooms, userSockets, pendingStatus,
                   pendingNotify, dbCommunities, dbMessages, handlers, dbPosts,
                   cache, now, dbTokens>>

\* ----------------------------------------------------------- post service
\* Post.findById(p) as the database answers it.
FindPost(p) ==
    IF p \in Posts /\ dbPosts[p].exists THEN [found |-> TRUE, doc |-> dbPosts[p]]
    ELSE [found |-> FALSE, doc |-> NewPost]

\* MongooseArray.includes(userId): some element has the id's value.
Includes(arr, u) == \E i \in 1..Len(arr) : arr[i] = u

\* What the database does with the $pull of a saved MongooseArray.pull(userId):
\* every element equal to the id is taken out of the stored array.
PullAll(arr, u) == SelectSeq(arr, LAMBDA x : x # u)

\* What the database does with the $push of a saved MongooseArray.push(userId).
Push(arr, u) == Append(arr, u)

\* Mutant: a second upvote does not take the upvote back.
upvoteChanges_noToggle(doc, u) ==
    IF Includes(doc.upvotes, u)
    THEN [pullUp |-> FALSE, pushUp |-> FALSE, pullDown |-> FALSE, pushDown |-> FALSE]
    ELSE [pullUp |-> FALSE, pushUp |-> TRUE,
          pullDown |-> Includes(doc.downvotes, u), pushDown |-> FALSE]

\* Mutant: a downvote leaves the user's upvote in place.
downvoteChanges_keepUpvote(doc, u) ==
    IF Includes(doc.downvotes, u)
    THEN [pullUp |-> FALSE, pushUp |-> FALSE, pullDown |-> TRUE, pushDown |-> FALSE]
    ELSE [pullUp |-> FALSE, pushUp |-> FALSE, pullDown |-> FALSE, pushDown |-> TRUE]

\* Mutant: an upvote leaves the user's downvote in place.
upvoteChanges_keepDownvote(doc, u) ==
    IF Includes(doc.upvotes, u)
    THEN [pullUp |-> TRUE, pushUp |-> FALSE, pullDown |-> FALSE, pushDown |-> FALSE]
    ELSE [pullUp |-> FALSE, pushUp |-> TRUE, pullDown |-> FALSE, pushDown |-> FALSE]

\* upvotePost between its awaits: the array operations it applies to the
\* document it read, which post.save() sends as $push / $pull updates.
upvoteChanges(doc, u) ==
    IF Includes(doc.upvotes, u)
    THEN [pullUp |-> TRUE, pushUp |-> FALSE, pullDown |-> FALSE, pushDown |-> FALSE]
    ELSE [pullUp |-> FALSE, pushUp |-> TRUE,
          pullDown |-> Includes(doc.downvotes, u), pushDown |-> FALSE]

\* downvotePost between its awaits, likewise.
downvoteChanges(doc, u) ==
    IF Includes(doc.downvotes, u)
    THEN [pullUp |-> FALSE, pushUp |-> FALSE, pullDown |-> TRUE, pushDown |-> FALSE]
    ELSE [pullUp |-> Includes(doc.upvotes, u), pushUp |-> FALSE,
          pullDown |-> FALSE, pushDown |-> TRUE]

\* post.save(): the updates are applied to the stored document as it is now.
SavePost(stored, ch, u) ==
    LET ups == IF ch.pullUp THEN PullAll(stored.upvotes, u)
               ELSE IF ch.pushUp THEN Push(stored.upvotes, u)
               ELSE stored.upvotes
        downs == IF ch.pullDown THEN PullAll(stored.downvotes, u)
                 ELSE IF ch.pushDown THEN Push(stored.downvotes, u)
                 ELSE stored.downvotes
    IN [stored EXCEPT !.upvotes = ups, !.downvotes = downs]

\* alreadyUpvoted / alreadyDownvoted as the call computes them from the document
\* it read.
PriorVote(doc, u) ==
    IF Includes(doc.upvotes, u) /\ Includes(doc.downvotes, u) THEN "both"
    ELSE IF Includes(doc.upvotes, u) THEN "upvoted"
    ELSE IF Includes(doc.downvotes, u) THEN "downvoted"
    ELSE "none"

\* History: the vote call that completed last, if none failed since and no two
\* calls have been in flight together: who voted on which post, which way, and
\* the vote the user had before it.
VoteHistory ==
    IF Cardinality({k \in Calls : calls[k].op # "idle"}) > 1 THEN <<>>
    ELSE IF last.op = "votePost" /\ last.result \in {"up", "down"}
    THEN <<[user |-> last.user, post |-> last.target, vote |-> last.result,
            prior |-> last.status[1]]>>
    ELSE IF last.op \in {"await", "clearPattern", "returned"} THEN last.notify
    ELSE <<>>

\* upvotePost / downvotePost up to the first await: Post.findById is issued and
\* answered by the database.  vote: "up" or "down".
votePostFind(k, p, u, vote) ==
    /\ calls[k].op = "idle"
    /\ calls' = [calls EXCEPT ![k] =
                   [Idle EXCEPT !.op = "votePost", !.pc = "findById", !.user = u,
                                !.post = p, !.vote = vote, !.snap = FindPost(p)]]
    /\ emitted' = EmptyBag
    /\ last' = [Awaiting EXCEPT !.notify = VoteHistory]
    /\ UNCHANGED <<sockState, sockUser, rooms, userSockets, pendingStatus,
                   pendingNotify, dbUsers, dbCommunities, dbMessages, dbPosts,
                   handlers, cache, now, dbTokens>>

\* round(10000 * log10(n)) for the vote margins the model reaches.
Log10Scaled(n) ==
    CASE n <= 1 -> 0
      [] n = 2 -> 3010
      [] n = 3 -> 4771
      [] n = 4 -> 6021
      [] n = 5 -> 6990
      [] n = 6 -> 7782
      [] n = 7 -> 8451
      [] n = 8 -> 9031
      [] n = 9 -> 9542
      [] OTHER -> 10000

Abs(n) == IF n < 0 THEN 0 - n ELSE n
Sign(n) == IF n > 0 THEN 1 ELSE IF n < 0 THEN 0 - 1 ELSE 0

\* The score formula, in ten-thousandths (the stored score times 10000), for a
\* vote margin v, an age of `age` clock steps of 4.5 hours (age / 45000 hours is
\* age ten-thousandths) and cc comments:
\* Math.round((order + sign * ageInHours / 45000 + commentWeight) * 10000).
Score(v, age, cc) == Log10Scaled(Abs(v)) + Sign(v) * age + 5000 * cc

\* Mutant: the age term is left out of the score.
PreSave_noAge(doc) ==
    [doc EXCEPT !.score = Score(Len(doc.upvotes) - Len(doc.downvotes), 0,
                                doc.commentCount),
                !.scoredAt = now]

\* postSchema.pre('save'): the score of the document being saved, from the
\* arrays and the comment count it holds in memory and the time of the save.
PreSave(doc) ==
    [doc EXCEPT !.score = Score(Len(doc.upvotes) - Len(doc.downvotes),
                                now - doc.createdAt, doc.commentCount),
                !.scoredAt = now]

\* The scalar paths a save writes: those the document in memory changed since it
\* was loaded; every other path keeps its stored value.
SetModified(stored, loaded, local) ==
    [stored EXCEPT
        !.title = IF local.title # loaded.title THEN local.title ELSE @,
        !.isDeleted = IF local.isDeleted # loaded.isDeleted THEN local.isDeleted ELSE @,
        !.isPinned = IF local.isPinned # loaded.isPinned THEN local.isPinned ELSE @,
        !.score = IF local.score # loaded.score THEN local.score ELSE @,
        !.scoredAt = local.scoredAt]

\* Mutant: only the post's own entries are cleared.
PostClears_postOnly(p, c) == <<PostPattern(p)>>

\* The patterns a mutation of an existing post clears, in order.
PostClears(p, c) == <<PostPattern(p), ListingPattern(c)>>

\* upvotePost / downvotePost from the lookup to post.save().  threw: the lookup
\* or the save rejected.  The document in memory is the one read with the array
\* operations applied to it; the pre-save hook scores that document, and the
\* save $sets the score and sends the array operations.
votePostSave(k, threw) ==
    LET c == calls[k]
        ch == IF c.vote = "up" THEN upvoteChanges(c.snap.doc, c.user)
              ELSE downvoteChanges(c.snap.doc, c.user)
        local == PreSave(SavePost(c.snap.doc, ch, c.user))
    IN /\ c.op = "votePost"
       /\ c.pc = "findById"
       /\ emitted' = EmptyBag
       /\ IF threw \/ ~c.snap.found \/ c.snap.doc.isDeleted
          THEN /\ UNCHANGED dbPosts
               /\ calls' = [calls EXCEPT ![k] = Idle]
               /\ last' = [NoOp EXCEPT !.op = "votePost", !.user = c.user,
                                       !.target = c.post, !.result = "threw"]
          ELSE /\ dbPosts' = [dbPosts EXCEPT ![c.post] =
                                 SetModified(SavePost(@, ch, c.user), c.snap.doc, local)]
               /\ calls' = [calls EXCEPT ![k].pc = "clear", ![k].snap.doc = local,
                                         ![k].todo = PostClears(c.post, local.community)]
               /\ last' = [NoOp EXCEPT !.op = "votePost", !.user = c.user,
                                       !.target = c.post, !.result = c.vote,
                                       !.status = <<PriorVote(c.snap.doc, c.user)>>,
                                       !.notify = VoteHistory]
       /\ UNCHANGED <<sockState, sockUser, rooms, userSockets, pendingStatus,
                      pendingNotify, dbUsers, dbCommunities, dbMessages, handlers,
                      cache, now, dbTokens>>

\* ------------------------------------------------------ upvote_post handler
PostRoom(p) == <<"post", p>>

\* The vote_update payload handleUpvotePost builds from the post that
\* upvotePost returned.
VoteUpdate(p, doc) ==
    [postId |-> p, upvotes |-> Len(doc.upvotes), downvotes |-> Len(doc.downvotes),
     score |-> doc.score, userVote |-> "up"]

\* The post_updated payload for the community room.
PostUpdated(p, u, doc) ==
    [type |-> "upvote", postId |-> p, userId |-> u, score |-> doc.score]

\* handleUpvotePost up to the first await: postService.upvotePost is called
\* for the socket's user and issues Post.findById.
handleUpvotePost(s, k, p) ==
    /\ sockState[s] = "open"
    /\ calls[k].op = "idle"
    /\ calls' = [calls EXCEPT ![k] =
                   [Idle EXCEPT !.op = "votePost", !.pc = "findById", !.sock = s,
                                !.user = sockUser[s], !.post = p, !.vote = "up",
                                !.snap = FindPost(p)]]
    /\ emitted' = EmptyBag
    /\ last' = [Awaiting EXCEPT !.notify = VoteHistory]
    /\ UNCHANGED <<sockState, sockUser, rooms, userSockets, pendingStatus,
                   pendingNotify, dbUsers, dbCommunities, dbMessages, dbPosts,
                   handlers, cache, now, dbTokens>>

\* upvotePost rejects (no post, a deleted post, a failed lookup or save): the
\* handler's catch block emits 'error' to the socket.
handleUpvotePostCatch(k, threw) ==
    LET c == calls[k] IN
    /\ c.op = "votePost"
    /\ c.sock # 0
    /\ c.pc = "findById"
    /\ threw \/ ~c.snap.found \/ c.snap.doc.isDeleted
    /\ calls' = [calls EXCEPT ![k] = Idle]
    /\ emitted' = SocketEmit(c.sock, "error", 0, 0)
    /\ last' = [NoOp EXCEPT !.op = "upvote_post", !.sock = c.sock, !.user = c.user,
                            !.target = c.post, !.result = "threw"]
    /\ UNCHANGED <<sockState, sockUser, rooms, userSockets, pendingStatus,
                   pendingNotify, dbUsers, dbCommunities, dbMessages, dbPosts,
                   handlers, cache, now, dbTokens>>

\* The last clearPattern of upvotePost resolves, upvotePost returns the post it
\* saved and the handler emits post_updated to the community room and
\* vote_update to the post room.
handleUpvotePostEmit(k) ==
    LET c == calls[k]
        doc == c.snap.doc
    IN /\ c.op = "votePost"
       /\ c.sock # 0
       /\ c.pc = "clear"
       /\ Len(c.todo) = 1
       /\ cache' = ClearPattern(Head(c.todo))
       /\ calls' = [calls EXCEPT ![k] = Idle]
       /\ emitted' = SocketToEmit(c.sock, CommunityRoom(doc.community), "post_updated",
                                  c.user, PostUpdated(c.post, c.user, doc))
                     (+) IoToEmit(PostRoom(c.post), "vote_update", c.user,
                                  VoteUpdate(c.post, doc))
       /\ last' = [NoOp EXCEPT !.op = "upvote_post", !.sock = c.sock, !.user = c.user,
                               !.target = c.post, !.result = "ok",
                               !.rooms = <<PostRoom(c.post)>>,
                               !.status = <<VoteUpdate(c.post, doc)>>]
       /\ UNCHANGED <<sockState, sockUser, rooms, userSockets, pendingStatus,
                      pendingNotify, dbUsers, dbCommunities, dbMessages, dbPosts,
                      handlers, now, dbTokens>>

\* History: the keys a clearPattern call removes.
Cleared(prefix) == {key \in DOMAIN cache : Matches(key, prefix)}

\* The cache clearing that ends a mutation: one awaited clearPattern per step,
\* in the order of the code; after the last one the call returns.
clearPatterns(k) ==
    LET c == calls[k] IN
    /\ c.pc = "clear"
    /\ c.todo # <<>>
    /\ emitted' = EmptyBag
    /\ cache' = ClearPattern(Head(c.todo))
    /\ IF Len(c.todo) > 1
       THEN /\ calls' = [calls EXCEPT ![k].todo = Tail(c.todo),
                                      ![k].cleared = @ \cup Cleared(Head(c.todo))]
            /\ last' = [NoOp EXCEPT !.op = "clearPattern", !.user = c.user,
                                    !.target = c.post,
                                    !.notify = IF c.op = "votePost"
                                               THEN VoteHistory ELSE <<>>]
       ELSE /\ calls' = [calls EXCEPT ![k] = Idle]
            /\ last' = [NoOp EXCEPT !.op = "returned", !.user = c.user,
                                    !.target = c.post,
                                    !.rooms = <<c.op, IF c.community # Absent
                                                      THEN c.community
                                                      ELSE c.snap.doc.community>>,
                                    !.status = <<c.cleared \cup Cleared(Head(c.todo))>>,
                                    !.result = "ok",
                                    !.notify = IF c.op = "votePost"
                                               THEN VoteHistory ELSE <<>>]
    /\ UNCHANGED <<sockState, sockUser, rooms, userSockets, pendingStatus,
                   pendingNotify, dbUsers, dbCommunities, dbMessages, dbPosts,
                   handlers, now, dbTokens>>

\* community.moderators.some(mod => mod.user === userId) || owner === userId
IsModerator(doc, u) ==
    \/ \E i \in 1..Len(doc.moderators) : doc.moderators[i].user = u
    \/ doc.owner = u

PostMutations == {"updatePost", "deletePost", "pinPost", "unpinPost"}

\* updatePost / deletePost / pinPost / unpinPost up to the first await:
\* Post.findById.  title: the data of updatePost.
postFind(k, op, p, u, title) ==
    /\ calls[k].op = "idle"
    /\ op \in PostMutations
    /\ op = "deletePost" => \A x \in Communities :
                                dbCommunities[x].postCount > 0 - MaxDrift
    /\ calls' = [calls EXCEPT ![k] =
                   [Idle EXCEPT !.op = op, !.pc = "findById", !.user = u, !.post = p,
                                !.data = IF op = "updatePost" THEN <<title>> ELSE <<>>,
                                !.snap = FindPost(p)]]
    /\ emitted' = EmptyBag
    /\ last' = Awaiting
    /\ UNCHANGED <<sockState, sockUser, rooms, userSockets, pendingStatus,
                   pendingNotify, dbUsers, dbCommunities, dbMessages, dbPosts,
                   handlers, cache, now, dbTokens>>

\* The assignments a mutation makes to the document it loaded.
Mutated(c) ==
    CASE c.op = "updatePost" -> [c.snap.doc EXCEPT !.title = c.data[1]]
      [] c.op = "deletePost" -> [c.snap.doc EXCEPT !.isDeleted = TRUE]
      [] c.op = "pinPost" -> [c.snap.doc EXCEPT !.isPinned = TRUE]
      [] c.op = "unpinPost" -> [c.snap.doc EXCEPT !.isPinned = FALSE]
      [] OTHER -> c.snap.doc

\* post.save() of a mutation: the pre-save hook scores the document in memory
\* and the modified paths are written.
postSave(k) ==
    LET c == calls[k]
        local == PreSave(Mutated(c))
    IN /\ dbPosts' = [dbPosts EXCEPT ![c.post] = SetModified(@, c.snap.doc, local)]
       /\ calls' = [calls EXCEPT ![k].pc = IF c.op = "deletePost" THEN "stats"
                                           ELSE "clear",
                                 ![k].snap.doc = local,
                                 ![k].todo = PostClears(c.post, local.community)]
       /\ last' = [NoOp EXCEPT !.op = c.op, !.user = c.user, !.target = c.post,
                               !.status = <<c.snap.doc.score, c.snap.doc.scoredAt>>,
                               !.result = "saved"]

\* A mutation after Post.findById: not found throws; updatePost and deletePost
\* by the author save at once; otherwise Community.findById is awaited.
postCheck(k, threw) ==
    LET c == calls[k] IN
    /\ c.op \in PostMutations
    /\ c.pc = "findById"
    /\ emitted' = EmptyBag
    /\ IF threw \/ ~c.snap.found
       THEN /\ Throw(k, c.op, "threw")
            /\ UNCHANGED dbPosts
       ELSE IF c.op \in {"updatePost", "deletePost"} /\ c.snap.doc.author = c.user
       THEN postSave(k)
       ELSE /\ calls' = [calls EXCEPT ![k].pc = "communityFindById",
                                      ![k].csnap = FindCommunity(c.snap.doc.community)]
            /\ last' = Awaiting
            /\ UNCHANGED dbPosts
    /\ UNCHANGED <<sockState, sockUser, rooms, userSockets, pendingStatus,
                   pendingNotify, dbUsers, dbCommunities, dbMessages, handlers,
                   cache, now, dbTokens>>

\* A mutation after Community.findById: the moderator test, then the save.
postPermission(k, threw) ==
    LET c == calls[k] IN
    /\ c.op \in PostMutations
    /\ c.pc = "communityFindById"
    /\ emitted' = EmptyBag
    /\ IF threw \/ ~c.csnap.found \/ ~IsModerator(c.csnap.doc, c.user)
       THEN /\ Throw(k, c.op, "threw")
            /\ UNCHANGED dbPosts
       ELSE postSave(k)
    /\ UNCHANGED <<sockState, sockUser, rooms, userSockets, pendingStatus,
                   pendingNotify, dbUsers, dbCommunities, dbMessages, handlers,
                   cache, now, dbTokens>>

\* deletePost after the save: Community.findByIdAndUpdate $inc stats.postCount.
deletePostStats(k, threw) ==
    LET c == calls[k] IN
    /\ c.op = "deletePost"
    /\ c.pc = "stats"
    /\ emitted' = EmptyBag
    /\ IF threw
       THEN /\ Throw(k, c.op, "threw")
            /\ UNCHANGED dbCommunities
       ELSE /\ dbCommunities' =
                 [x \in Communities |->
                    IF x = c.snap.doc.community
                    THEN [dbCommunities[x] EXCEPT !.postCount = @ - 1]
                    ELSE dbCommunities[x]]
            /\ calls' = [calls EXCEPT ![k].pc = "clear"]
            /\ last' = Awaiting
    /\ UNCHANGED <<sockState, sockUser, rooms, userSockets, pendingStatus,
                   pendingNotify, dbUsers, dbMessages, dbPosts, handlers, cache, now,
                   dbTokens>>

\* createPost up to the first await: Community.findById.
createPostFind(k, c, u) ==
    /\ calls[k].op = "idle"
    /\ \E p \in Posts : ~dbPosts[p].exists
    /\ calls' = [calls EXCEPT ![k] =
                   [Idle EXCEPT !.op = "createPost", !.pc = "findById", !.user = u,
                                !.community = c, !.csnap = FindCommunity(c)]]
    /\ emitted' = EmptyBag
    /\ last' = Awaiting
    /\ UNCHANGED <<sockState, sockUser, rooms, userSockets, pendingStatus,
                   pendingNotify, dbUsers, dbCommunities, dbMessages, dbPosts,
                   handlers, cache, now, dbTokens>>

\* AIService.moderateContent: the reply of the moderation service, or the safe
\* default when the request to it fails or times out.
moderateContent(ai) ==
    IF ai = "unavailable"
    THEN [flagged |-> FALSE, toxicity |-> 0, default |-> TRUE]
    ELSE [flagged |-> ai = "flagged", toxicity |-> 0, default |-> FALSE]

\* postData.aiAnalysis: the analysis when moderateContent was called (content
\* of more than 10 characters), left out otherwise.  A sequence of no element
\* stands for the absent field.
PostAnalysis(ai) == IF ai = "skipped" THEN <<>> ELSE <<moderateContent(ai)>>

\* The id Post.create gives the new document.
FreshPost == CHOOSE p \in Posts : ~dbPosts[p].exists

\* createPost from the lookup to Post.create: the community, membership and
\* permission checks; the moderation verdict ai never stops the post, a thrown
\* rejection being caught with the service's failures.  The new post is scored
\* by the pre-save hook at age 0.
createPostCreate(k, threw, ai) ==
    LET c == calls[k]
        doc == c.csnap.doc
        allowed == /\ c.csnap.found
                   /\ doc.isActive
                   /\ IsMember(doc, c.user)
                   /\ doc.postPermissions = "moderators" => IsModerator(doc, c.user)
    IN /\ c.op = "createPost"
       /\ c.pc = "findById"
       /\ emitted' = EmptyBag
       /\ IF threw \/ ~allowed \/ ~(\E p \in Posts : ~dbPosts[p].exists)
          THEN /\ Throw(k, c.op, "threw")
               /\ UNCHANGED dbPosts
          ELSE /\ dbPosts' = [dbPosts EXCEPT ![FreshPost] =
                                 [NewPost EXCEPT !.community = c.community,
                                                 !.author = c.user,
                                                 !.createdAt = now,
                                                 !.scoredAt = now,
                                                 !.aiAnalysis = PostAnalysis(ai)]]
               /\ calls' = [calls EXCEPT ![k].pc = "created", ![k].post = FreshPost,
                                         ![k].data = <<ai>>]
               /\ last' = [NoOp EXCEPT !.op = c.op, !.user = c.user,
                                       !.target = FreshPost, !.result = "created"]
       /\ UNCHANGED <<sockState, sockUser, rooms, userSockets, pendingStatus,
                      pendingNotify, dbUsers, dbCommunities, dbMessages, handlers,
                      cache, now, dbTokens>>

\* createPost after Post.create: community.save() writes stats.postCount as the
\* value read plus one; then the listing and the user's posts are cleared.
createPostStats(k, threw) ==
    LET c == calls[k] IN
    /\ c.op = "createPost"
    /\ c.pc = "created"
    /\ emitted' = EmptyBag
    /\ IF threw
       THEN /\ Throw(k, c.op, "threw")
            /\ UNCHANGED dbCommunities
       ELSE /\ dbCommunities' = [dbCommunities EXCEPT ![c.community].postCount =
                                    c.csnap.doc.postCount + 1]
            /\ calls' = [calls EXCEPT ![k].pc = "clear",
                                      ![k].snap = [found |-> TRUE,
                                                   doc |-> dbPosts[c.post]],
                                      ![k].todo = <<ListingPattern(c.community),
                                                    UserPostsPattern(c.user)>>]
            /\ last' = Awaiting
    /\ UNCHANGED <<sockState, sockUser, rooms, userSockets, pendingStatus,
                   pendingNotify, dbUsers, dbMessages, dbPosts, handlers, cache, now,
                   dbTokens>>

\* The sort orders a listing is asked in: the default, which puts the pinned
\* posts first, and '-createdAt', which does not read them.
Sorts == {"-score", "-createdAt"}

\* Post.find({community, isDeleted: false}) with the documents it returns, and
\* the same query restricted to the pinned posts.
LiveIn(c) ==
    {p \in Posts : /\ dbPosts[p].exists
                   /\ ~dbPosts[p].isDeleted
                   /\ dbPosts[p].community = c}
FindLive(c) == {<<p, dbPosts[p]>> : p \in LiveIn(c)}
FindPinned(c) == {<<p, dbPosts[p]>> : p \in {q \in LiveIn(c) : dbPosts[q].isPinned}}

\* The result getPostsByCommunity builds: the pinned posts as the pinned query
\* returned them, the other posts as the main query returned them, and the
\* total as it was counted.
Listing(pinned, total, posts) ==
    [posts |-> pinned \cup {e \in posts : \A q \in pinned : q[1] # e[1]},
     total |-> total]

\* The listing a call that ran alone now would build.
ListingNow(c, sort) ==
    Listing(IF sort = "-createdAt" THEN {} ELSE FindPinned(c),
            Cardinality(LiveIn(c)), FindLive(c))

\* A read that ends: the value it returns, or the failure it throws.
ReadReturns(k, how) ==
    /\ calls' = [calls EXCEPT ![k] = Idle]
    /\ last' = [NoOp EXCEPT !.op = calls[k].op, !.user = calls[k].user,
                            !.target = calls[k].post, !.result = how]

\* getPostsByCommunity up to its first await: redisService.get(cacheKey).
listGet(k, c, sort) ==
    /\ calls[k].op = "idle"
    /\ LET key == ListingKey(c, sort) IN
       calls' = [calls EXCEPT ![k] =
                   [Idle EXCEPT !.op = "getPostsByCommunity", !.pc = "cacheGet",
                                !.community = c, !.vote = sort,
                                !.data = IF CacheHit(key) THEN <<cache[key]>>
                                         ELSE <<>>]]
    /\ emitted' = EmptyBag
    /\ last' = Awaiting
    /\ UNCHANGED <<sockState, sockUser, rooms, userSockets, pendingStatus,
                   pendingNotify, dbUsers, dbCommunities, dbMessages, dbPosts,
                   handlers, cache, now, dbTokens>>

\* After the cache answered: a hit is returned; on a miss the pinned posts are
\* queried (page 1, sort other than '-createdAt').
listPinned(k) ==
    LET c == calls[k] IN
    /\ c.op = "getPostsByCommunity"
    /\ c.pc = "cacheGet"
    /\ emitted' = EmptyBag
    /\ IF c.data # <<>> THEN ReadReturns(k, "hit")
       ELSE /\ calls' = [calls EXCEPT ![k].pc = "pinned",
                                      ![k].data = <<IF c.vote = "-createdAt" THEN {}
                                                    ELSE FindPinned(c.community)>>]
            /\ last' = Awaiting
    /\ UNCHANGED <<sockState, sockUser, rooms, userSockets, pendingStatus,
                   pendingNotify, dbUsers, dbCommunities, dbMessages, dbPosts,
                   handlers, cache, now, dbTokens>>

\* Post.countDocuments(query).
listCount(k, threw) ==
    LET c == calls[k] IN
    /\ c.op = "getPostsByCommunity"
    /\ c.pc = "pinned"
    /\ emitted' = EmptyBag
    /\ IF threw THEN ReadReturns(k, "threw")
       ELSE /\ calls' = [calls EXCEPT ![k].pc = "count",
                                      ![k].data = Append(c.data,
                                                     Cardinality(LiveIn(c.community)))]
            /\ last' = Awaiting
    /\ UNCHANGED <<sockState, sockUser, rooms, userSockets, pendingStatus,
                   pendingNotify, dbUsers, dbCommunities, dbMessages, dbPosts,
                   handlers, cache, now, dbTokens>>

\* The main query.
listPosts(k, threw) ==
    LET c == calls[k] IN
    /\ c.op = "getPostsByCommunity"
    /\ c.pc = "count"
    /\ emitted' = EmptyBag
    /\ IF threw THEN ReadReturns(k, "threw")
       ELSE /\ calls' = [calls EXCEPT ![k].pc = "posts",
                                      ![k].data = Append(c.data,
                                                         FindLive(c.community))]
            /\ last' = Awaiting
    /\ UNCHANGED <<sockState, sockUser, rooms, userSockets, pendingStatus,
                   pendingNotify, dbUsers, dbCommunities, dbMessages, dbPosts,
                   handlers, cache, now, dbTokens>>

\* After the main query (threw: it rejected): the result is built and stored
\* under the key for 30 seconds.
listSet(k, threw) ==
    LET c == calls[k] IN
    /\ c.op = "getPostsByCommunity"
    /\ c.pc = "posts"
    /\ emitted' = EmptyBag
    /\ IF threw
       THEN /\ ReadReturns(k, "threw")
            /\ UNCHANGED cache
       ELSE /\ cache' = CacheSet(ListingKey(c.community, c.vote),
                                 Listing(c.data[1], c.data[2], c.data[3]))
            /\ ReadReturns(k, "miss")
    /\ UNCHANGED <<sockState, sockUser, rooms, userSockets, pendingStatus,
                   pendingNotify, dbUsers, dbCommunities, dbMessages, dbPosts,
                   handlers, now, dbTokens>>

\* getPostById up to its first await: redisService.get(cacheKey).  viewer: the
\* user id, or Absent for an anonymous read.
postGet(k, p, viewer) ==
    /\ calls[k].op = "idle"
    /\ LET key == PostKey(p, viewer) IN
       calls' = [calls EXCEPT ![k] =
                   [Idle EXCEPT !.op = "getPostById", !.pc = "cacheGet",
                                !.post = p, !.user = viewer,
                                !.data = IF CacheHit(key) THEN <<cache[key]>>
                                         ELSE <<>>]]
    /\ emitted' = EmptyBag
    /\ last' = Awaiting
    /\ UNCHANGED <<sockState, sockUser, rooms, userSockets, pendingStatus,
                   pendingNotify, dbUsers, dbCommunities, dbMessages, dbPosts,
                   handlers, cache, now, dbTokens>>

\* After the cache answered: a hit is returned; on a miss the post is queried
\* (the view counter, which no step of the model reads, is left out).
postRead(k) ==
    LET c == calls[k] IN
    /\ c.op = "getPostById"
    /\ c.pc = "cacheGet"
    /\ emitted' = EmptyBag
    /\ IF c.data # <<>> THEN ReadReturns(k, "hit")
       ELSE /\ calls' = [calls EXCEPT ![k].pc = "read", ![k].snap = FindPost(c.post)]
            /\ last' = Awaiting
    /\ UNCHANGED <<sockState, sockUser, rooms, userSockets, pendingStatus,
                   pendingNotify, dbUsers, dbCommunities, dbMessages, dbPosts,
                   handlers, cache, now, dbTokens>>

\* After the query (threw: it rejected): a missing or deleted post throws; otherwise the post is
\* stored under the key for 60 seconds.
postSet(k, threw) ==
    LET c == calls[k] IN
    /\ c.op = "getPostById"
    /\ c.pc = "read"
    /\ emitted' = EmptyBag
    /\ IF threw \/ ~c.snap.found \/ c.snap.doc.isDeleted
       THEN /\ ReadReturns(k, "threw")
            /\ UNCHANGED cache
       ELSE /\ cache' = CacheSet(PostKey(c.post, c.user), c.snap.doc)
            /\ ReadReturns(k, "miss")
    /\ UNCHANGED <<sockState, sockUser, rooms, userSockets, pendingStatus,
                   pendingNotify, dbUsers, dbCommunities, dbMessages, dbPosts,
                   handlers, now, dbTokens>>

\* An entry reaches the end of its time to live.
Expire(key) ==
    /\ key \in DOMAIN cache
    /\ cache' = [x \in DOMAIN cache \ {key} |-> cache[x]]
    /\ emitted' = EmptyBag
    /\ last' = [NoOp EXCEPT !.op = "expire"]
    /\ UNCHANGED <<sockState, sockUser, rooms, userSockets, pendingStatus,
                   pendingNotify, dbUsers, dbCommunities, dbMessages, dbPosts,
                   handlers, calls, now, dbTokens>>

\* Time passes.
Tick ==
    /\ now < MaxTime
    /\ now' = now + 1
    /\ emitted' = EmptyBag
    /\ last' = [NoOp EXCEPT !.op = "tick"]
    /\ UNCHANGED <<sockState, sockUser, rooms, userSockets, pendingStatus,
                   pendingNotify, dbUsers, dbCommunities, dbMessages, dbPosts,
                   handlers, cache, calls, dbTokens>>

\* ------------------------------ community service: cached reads, updates
\* Community.findOne({ slug }) as the database answers it.
FindBySlug(slug) ==
    IF \E c \in Communities : dbCommunities[c].slug = slug
    THEN [found |-> TRUE,
          doc |-> dbCommunities[CHOOSE c \in Communities : dbCommunities[c].slug = slug]]
    ELSE [found |-> FALSE, doc |-> NullDoc]

\* The key a cached single-community read uses: by id with the includeMembers
\* flag, or by slug (the flag then is "slug" and the id is the slug).
ReadKey(c) ==
    IF c.vote = "slug" THEN SlugKey(c.community)
    ELSE CommunityKey(c.community, c.vote = "true")

\* getCommunityById / getCommunityBySlug up to the first await:
\* redisService.get(cacheKey).
communityGet(k, op, id, flag) ==
    /\ calls[k].op = "idle"
    /\ \/ op = "getCommunityById" /\ flag \in {"true", "false"}
       \/ op = "getCommunityBySlug" /\ flag = "slug"
    /\ LET call == [Idle EXCEPT !.op = op, !.pc = "cacheGet", !.community = id,
                                !.vote = flag]
       IN calls' = [calls EXCEPT ![k] =
                      [call EXCEPT !.data = IF CacheHit(ReadKey(call))
                                            THEN <<cache[ReadKey(call)]>>
                                            ELSE <<>>]]
    /\ emitted' = EmptyBag
    /\ last' = Awaiting
    /\ UNCHANGED <<sockState, sockUser, rooms, userSockets, pendingStatus,
                   pendingNotify, dbUsers, dbCommunities, dbMessages, dbPosts,
                   handlers, cache, now, dbTokens>>

\* After the cache answered: a hit is returned; on a miss the community is
\* queried.
communityRead(k) ==
    LET c == calls[k] IN
    /\ c.op \in {"getCommunityById", "getCommunityBySlug"}
    /\ c.pc = "cacheGet"
    /\ emitted' = EmptyBag
    /\ IF c.data # <<>> THEN ReadReturns(k, "hit")
       ELSE /\ calls' = [calls EXCEPT ![k].pc = "read",
                                      ![k].snap = IF c.vote = "slug"
                                                  THEN FindBySlug(c.community)
                                                  ELSE FindCommunity(c.community)]
            /\ last' = Awaiting
    /\ UNCHANGED <<sockState, sockUser, rooms, userSockets, pendingStatus,
                   pendingNotify, dbUsers, dbCommunities, dbMessages, dbPosts,
                   handlers, cache, now, dbTokens>>

\* After the query (threw: it rejected): a missing community throws; otherwise
\* the community is stored under the key for 300 seconds.
communitySet(k, threw) ==
    LET c == calls[k] IN
    /\ c.op \in {"getCommunityById", "getCommunityBySlug"}
    /\ c.pc = "read"
    /\ emitted' = EmptyBag
    /\ IF threw \/ ~c.snap.found
       THEN /\ ReadReturns(k, "threw")
            /\ UNCHANGED cache
       ELSE /\ cache' = CacheSet(ReadKey(c), c.snap.doc)
            /\ ReadReturns(k, "miss")
    /\ UNCHANGED <<sockState, sockUser, rooms, userSockets, pendingStatus,
                   pendingNotify, dbUsers, dbCommunities, dbMessages, dbPosts,
                   handlers, now, dbTokens>>

CommunityUpdates == {"updateCommunity", "deleteCommunity", "addModerator",
                     "removeModerator"}

\* The keys a request body of updateCommunity may name that the model follows:
\* settings.privacy and isActive, which the request schema knows, and owner,
\* which it does not.
SchemaKeys == {"privacy", "isActive"}

\* A request body: the keys it names and the value it gives each.
Body(keys, privacy, isActive, owner) ==
    [keys |-> keys, privacy |-> privacy, isActive |-> isActive, owner |-> owner]

\* The bodies sent to updateCommunity, one key each.
PrivacyBodies == {Body({"privacy"}, p, TRUE, NoSuchUser) : p \in {"public", "private"}}

UpdateBodies ==
    PrivacyBodies
      \cup {Body({"isActive"}, "public", a, NoSuchUser) : a \in BOOLEAN}
      \cup {Body({"owner"}, "public", TRUE, o) : o \in Users}

\* schema.validate(req.body, {stripUnknown: true}): the keys the schema does not
\* know are dropped from the body the controller hands to the service.
StripUnknown_keepAll(body) == body

StripUnknown(body) == [body EXCEPT !.keys = @ \cap SchemaKeys]

\* updateCommunity / deleteCommunity / addModerator / removeModerator up to the
\* first await: Community.findById.  u: the caller; m: the moderator named;
\* body: the request body of updateCommunity, validated on the route.
communityFind(k, op, c, u, m, body) ==
    /\ calls[k].op = "idle"
    /\ op \in CommunityUpdates
    /\ \A x \in Communities : dbCommunities[x].version < MaxVersion
    /\ \A x \in Users : Len(dbUsers[x].communities) < MaxMemberships
    /\ calls' = [calls EXCEPT ![k] =
                   [Idle EXCEPT !.op = op, !.pc = "findById", !.user = u,
                                !.community = c, !.receiver = m,
                                !.data = IF op = "updateCommunity"
                                         THEN <<StripUnknown(body), body>>
                                         ELSE <<>>,
                                !.snap = FindCommunity(c)]]
    /\ emitted' = EmptyBag
    /\ last' = Awaiting
    /\ UNCHANGED <<sockState, sockUser, rooms, userSockets, pendingStatus,
                   pendingNotify, dbUsers, dbCommunities, dbMessages, dbPosts,
                   handlers, cache, now, dbTokens>>

\* Object.keys(data).forEach(key => { community[key] = data[key] }), saved: the
\* paths named are written.
Assigned(stored, data) ==
    [stored EXCEPT
       !.privacy = IF "privacy" \in data.keys THEN data.privacy ELSE @,
       !.isActive = IF "isActive" \in data.keys THEN data.isActive ELSE @,
       !.owner = IF "owner" \in data.keys THEN data.owner ELSE @]

\* members[memberIndex].role = role
SetRole(members, i, role) ==
    [j \in 1..Len(members) |-> IF j = i THEN [members[j] EXCEPT !.role = role]
                               ELSE members[j]]

\* Whether the checks of an update let the caller through.
UpdateAllowed(c) ==
    LET doc == c.snap.doc IN
    /\ c.snap.found
    /\ CASE c.op = "updateCommunity" -> IsModerator(doc, c.user)
         [] c.op = "addModerator" ->
               /\ doc.owner = c.user
               /\ FindIndex(doc.moderators, c.receiver) = 0
         [] c.op = "removeModerator" ->
               /\ doc.owner = c.user
               /\ FindIndex(doc.moderators, c.receiver) # 0
         [] OTHER -> doc.owner = c.user

\* community.save() of an update, applied to the stored document: scalar paths
\* are written from the document in memory, pushes as pushes, a spliced array
\* as the array in memory.
UpdateSaved(stored, c) ==
    LET doc == c.snap.doc
        memberIndex == FindIndex(doc.members, c.receiver)
    IN CASE c.op = "updateCommunity" -> Assigned(stored, c.data[1])
         [] c.op = "deleteCommunity" -> [stored EXCEPT !.isActive = FALSE]
         [] c.op = "addModerator" ->
               [stored EXCEPT
                  !.members = IF memberIndex = 0
                              THEN Append(@, [user |-> c.receiver, role |-> "moderator"])
                              ELSE IF memberIndex <= Len(@)
                              THEN SetRole(@, memberIndex, "moderator")
                              ELSE @,
                  !.moderators = Append(@, [user |-> c.receiver]),
                  !.version = @ + 1]
         [] OTHER ->
               [stored EXCEPT
                  !.members = IF memberIndex # 0 /\ memberIndex <= Len(@)
                              THEN SetRole(@, memberIndex, "member")
                              ELSE @,
                  !.moderators = Splice(doc.moderators,
                                        FindIndex(doc.moderators, c.receiver)),
                  !.version = @ + 1]

\* The patterns an update clears after its save.
CommunityClears(c) ==
    IF c.op \in {"updateCommunity", "deleteCommunity"}
    THEN <<CommunityPattern(c.community), CommunitiesPattern>>
    ELSE <<CommunityPattern(c.community)>>

\* An update after Community.findById: the checks; addModerator of a user who
\* is not a member first awaits User.findByIdAndUpdate; the others save.
communityCheck(k, threw) ==
    LET c == calls[k] IN
    /\ c.op \in CommunityUpdates
    /\ c.pc = "findById"
    /\ emitted' = EmptyBag
    /\ IF threw \/ ~UpdateAllowed(c)
          \/ (c.op = "removeModerator"
                /\ dbCommunities[c.community].version # c.snap.doc.version)
       THEN /\ Throw(k, c.op, "threw")
            /\ UNCHANGED <<dbCommunities, dbUsers>>
       ELSE IF c.op = "addModerator" /\ FindIndex(c.snap.doc.members, c.receiver) = 0
       THEN /\ dbUsers' = [dbUsers EXCEPT ![c.receiver].communities =
                              Append(@, c.community)]
            /\ calls' = [calls EXCEPT ![k].pc = "userUpdate"]
            /\ last' = Awaiting
            /\ UNCHANGED dbCommunities
       ELSE /\ dbCommunities' = [dbCommunities EXCEPT ![c.community] =
                                    UpdateSaved(@, c)]
            /\ calls' = [calls EXCEPT ![k].pc = IF c.op = "deleteCommunity"
                                                THEN "users" ELSE "clear",
                                      ![k].todo = CommunityClears(c)]
            /\ last' = [NoOp EXCEPT !.op = c.op, !.user = c.user,
                                    !.target = c.community, !.result = "saved"]
            /\ UNCHANGED dbUsers
    /\ UNCHANGED <<sockState, sockUser, rooms, userSockets, pendingStatus,
                   pendingNotify, dbMessages, dbPosts, handlers, cache, now,
                   dbTokens>>

\* addModerator after the user update: the moderator is pushed and the
\* community saved.
addModeratorSave(k, threw) ==
    LET c == calls[k] IN
    /\ c.op = "addModerator"
    /\ c.pc = "userUpdate"
    /\ emitted' = EmptyBag
    /\ IF threw
       THEN /\ Throw(k, c.op, "threw")
            /\ UNCHANGED dbCommunities
       ELSE /\ dbCommunities' = [dbCommunities EXCEPT ![c.community] =
                                    UpdateSaved(@, c)]
            /\ calls' = [calls EXCEPT ![k].pc = "clear",
                                      ![k].todo = CommunityClears(c)]
            /\ last' = [NoOp EXCEPT !.op = c.op, !.user = c.user,
                                    !.target = c.community, !.result = "saved"]
    /\ UNCHANGED <<sockState, sockUser, rooms, userSockets, pendingStatus,
                   pendingNotify, dbUsers, dbMessages, dbPosts, handlers, cache, now,
                   dbTokens>>

\* deleteCommunity after the save: User.updateMany pulls the community from
\* every user.
deleteCommunityUsers(k, threw) ==
    LET c == calls[k] IN
    /\ c.op = "deleteCommunity"
    /\ c.pc = "users"
    /\ emitted' = EmptyBag
    /\ IF threw
       THEN /\ Throw(k, c.op, "threw")
            /\ UNCHANGED dbUsers
       ELSE /\ dbUsers' = [u \in Users |->
                             [dbUsers[u] EXCEPT !.communities = Pull(@, c.community)]]
            /\ calls' = [calls EXCEPT ![k].pc = "clear"]
            /\ last' = Awaiting
    /\ UNCHANGED <<sockState, sockUser, rooms, userSockets, pendingStatus,
                   pendingNotify, dbCommunities, dbMessages, dbPosts, handlers,
                   cache, now, dbTokens>>

\* ------------------------------------------------- receipts and reactions
NullMessage ==
    [sender |-> 0, community |-> Absent, receiver |-> Absent, channel |-> <<>>,
     aiAnalysis |-> FALSE, deliveredTo |-> <<>>, readBy |-> <<>>, reactions |-> <<>>,
     isDeleted |-> FALSE, deletedFor |-> <<>>]

\* Message.findById(m) as the database answers it.
FindMessage(m) ==
    IF m \in 1..Len(dbMessages) THEN [found |-> TRUE, doc |-> dbMessages[m]]
    ELSE [found |-> FALSE, doc |-> NullMessage]

\* The part of isParticipant that needs no lookup: the user sent the message
\* or is its receiver.
SenderOrReceiver(doc, u) == doc.sender = u \/ doc.receiver = u

\* handleReadReceipt -> ChatService.markAsRead up to the first await:
\* Message.findById.
ReadReceiptFind(s, m) ==
    /\ handlers[s].op = "idle"
    /\ sockState[s] = "open"
    /\ handlers' = [handlers EXCEPT ![s] =
                      [Idle EXCEPT !.op = "read_receipt", !.pc = "findById",
                                   !.sock = s, !.user = sockUser[s], !.msg = m,
                                   !.snap = FindMessage(m)]]
    /\ emitted' = EmptyBag
    /\ last' = Awaiting
    /\ UNCHANGED <<sockState, sockUser, rooms, userSockets, pendingStatus,
                   pendingNotify, dbUsers, dbCommunities, dbMessages, calls,
                   dbPosts, cache, now, dbTokens>>

\* The rooms handleReadReceipt addresses with socket.to(...): the sender's
\* inbox unless the reader is the sender, and the community's room.
ReceiptRooms_always(doc, u) ==
    <<UserRoom(doc.sender)>>
    \o (IF doc.community # Absent THEN <<CommunityRoom(doc.community)>> ELSE <<>>)

ReceiptRooms(doc, u) ==
    (IF doc.sender # u THEN <<UserRoom(doc.sender)>> ELSE <<>>)
    \o (IF doc.community # Absent THEN <<CommunityRoom(doc.community)>> ELSE <<>>)

RECURSIVE ReceiptPackets(_, _, _, _)
ReceiptPackets(s, rs, u, m) ==
    IF rs = <<>> THEN EmptyBag
    ELSE SocketToEmit(s, Head(rs), "message_read", u, m)
         (+) ReceiptPackets(s, Tail(rs), u, m)

\* handleReadReceipt after markAsRead returned the message: the message_read
\* events.
ReceiptEmits(s) ==
    LET c == handlers[s] IN
    /\ emitted' = ReceiptPackets(s, ReceiptRooms(c.snap.doc, c.user), c.user, c.msg)
    /\ last' = [NoOp EXCEPT !.op = "read_receipt", !.sock = s, !.user = c.user,
                            !.target = c.msg,
                            !.rooms = ReceiptRooms(c.snap.doc, c.user),
                            !.result = "ok"]

\* markAsRead past isParticipant: a user who has read the message gets it back
\* at once and the handler emits; otherwise readBy.push and message.save().
ReceiptMarks(s) ==
    LET c == handlers[s] IN
    IF Includes(c.snap.doc.readBy, c.user)
    THEN /\ handlers' = [handlers EXCEPT ![s] = Idle]
         /\ ReceiptEmits(s)
         /\ UNCHANGED dbMessages
    ELSE /\ dbMessages' = [dbMessages EXCEPT ![c.msg].readBy = Append(@, c.user)]
         /\ handlers' = [handlers EXCEPT ![s].pc = "saved"]
         /\ emitted' = EmptyBag
         /\ last' = Awaiting

\* markAsRead after Message.findById: not found throws; the sender and the
\* receiver go on; for a community message of somebody else
\* isCommunityMember awaits Community.findById; anyone else is refused.
ReadReceiptCheck(s, threw) ==
    LET c == handlers[s] IN
    /\ c.op = "read_receipt"
    /\ c.pc = "findById"
    /\ IF threw \/ ~c.snap.found
       THEN /\ handlers' = [handlers EXCEPT ![s] = Idle]
            /\ CatchEmitError(s, "read_receipt")
            /\ UNCHANGED dbMessages
       ELSE IF SenderOrReceiver(c.snap.doc, c.user)
       THEN ReceiptMarks(s)
       ELSE IF c.snap.doc.community # Absent
       THEN /\ handlers' = [handlers EXCEPT ![s].pc = "isCommunityMember",
                                            ![s].csnap =
                                               FindCommunity(c.snap.doc.community)]
            /\ emitted' = EmptyBag
            /\ last' = Awaiting
            /\ UNCHANGED dbMessages
       ELSE /\ handlers' = [handlers EXCEPT ![s] = Idle]
            /\ CatchEmitError(s, "read_receipt")
            /\ UNCHANGED dbMessages
    /\ UNCHANGED <<sockState, sockUser, rooms, userSockets, pendingStatus,
                   pendingNotify, dbUsers, dbCommunities, calls, dbPosts, cache, now,
                   dbTokens>>

\* markAsRead after isCommunityMember.
ReadReceiptMember(s, threw) ==
    LET c == handlers[s] IN
    /\ c.op = "read_receipt"
    /\ c.pc = "isCommunityMember"
    /\ IF threw \/ ~c.csnap.found \/ ~IsMember(c.csnap.doc, c.user)
       THEN /\ handlers' = [handlers EXCEPT ![s] = Idle]
            /\ CatchEmitError(s, "read_receipt")
            /\ UNCHANGED dbMessages
       ELSE ReceiptMarks(s)
    /\ UNCHANGED <<sockState, sockUser, rooms, userSockets, pendingStatus,
                   pendingNotify, dbUsers, dbCommunities, calls, dbPosts, cache, now,
                   dbTokens>>

\* handleReadReceipt after message.save(): the events, or the error.
ReadReceiptEmit(s, threw) ==
    LET c == handlers[s] IN
    /\ c.op = "read_receipt"
    /\ c.pc = "saved"
    /\ handlers' = [handlers EXCEPT ![s] = Idle]
    /\ IF threw THEN CatchEmitError(s, "read_receipt") ELSE ReceiptEmits(s)
    /\ UNCHANGED <<sockState, sockUser, rooms, userSockets, pendingStatus,
                   pendingNotify, dbUsers, dbCommunities, dbMessages, calls,
                   dbPosts, cache, now, dbTokens>>

\* The filter both message queries carry: isDeleted false and the user not in
\* deletedFor.
Visible(msg, u) == ~msg.isDeleted /\ ~Includes(msg.deletedFor, u)

\* sort('-createdAt'): messages are stored in the order of their creation, so
\* the latest is the one with the largest index.
RECURSIVE Descending(_)
Descending(ids) ==
    IF ids = {} THEN <<>>
    ELSE LET m == CHOOSE i \in ids : \A j \in ids : j <= i
         IN <<m>> \o Descending(ids \ {m})

\* skip(0).limit(limit) of the first page.
FirstPage(seq) == SubSeq(seq, 1, IF Len(seq) < FetchLimit THEN Len(seq) ELSE FetchLimit)

\* messages.reverse()
Reverse(seq) == [i \in 1..Len(seq) |-> seq[Len(seq) + 1 - i]]

\* What a message query of user u on a channel resolves to.
Query(channel, u) ==
    FirstPage(Descending({i \in 1..Len(dbMessages) :
                            /\ dbMessages[i].channel = channel
                            /\ Visible(dbMessages[i], u)}))

Range(seq) == {seq[i] : i \in 1..Len(seq)}

\* getCommunityMessages up to Community.findById (c a community), or
\* getDirectMessages up to the message query (other a user).
fetchFind(k, c, other, u) ==
    /\ calls[k].op = "idle"
    /\ (c = Absent) # (other = Absent)
    /\ calls' = [calls EXCEPT ![k] =
                   [Idle EXCEPT !.op = IF c # Absent THEN "getCommunityMessages"
                                       ELSE "getDirectMessages",
                                !.pc = IF c # Absent THEN "findById" ELSE "query",
                                !.user = u, !.community = c, !.receiver = other,
                                !.snap = IF c # Absent THEN FindCommunity(c)
                                         ELSE [found |-> TRUE, doc |-> NullDoc],
                                !.data =
                                   IF c # Absent THEN <<>>
                                   ELSE LET found ==
                                              Query(getDirectMessageChannel(u, other), u)
                                        IN <<Range(found), found>>]]
    /\ emitted' = EmptyBag
    /\ last' = Awaiting
    /\ UNCHANGED <<sockState, sockUser, rooms, userSockets, pendingStatus,
                   pendingNotify, dbUsers, dbCommunities, dbMessages, dbPosts,
                   handlers, cache, now, dbTokens>>

\* getCommunityMessages after Community.findById: the membership check, then
\* the message query.
fetchQuery(k, threw) ==
    LET c == calls[k] IN
    /\ c.op = "getCommunityMessages"
    /\ c.pc = "findById"
    /\ emitted' = EmptyBag
    /\ IF threw \/ ~c.snap.found \/ ~IsMember(c.snap.doc, c.user)
       THEN Throw(k, c.op, "threw")
       ELSE /\ calls' = [calls EXCEPT ![k].pc = "query",
                                      ![k].data =
                                         LET found ==
                                               Query(CommunityRoom(c.community), c.user)
                                         IN <<Range(found), found>>]
            /\ last' = Awaiting
    /\ UNCHANGED <<sockState, sockUser, rooms, userSockets, pendingStatus,
                   pendingNotify, dbUsers, dbCommunities, dbMessages, dbPosts,
                   handlers, cache, now, dbTokens>>

\* Mutant: the delivery entry is pushed whether or not the user has one.
MarkDelivered_always(msgs, ids, u) ==
    [i \in 1..Len(msgs) |->
       IF i \in ids THEN [msgs[i] EXCEPT !.deliveredTo = Append(@, u)] ELSE msgs[i]]

\* Message.updateMany({_id in ids, 'deliveredTo.user' != u}, $push deliveredTo).
MarkDelivered(msgs, ids, u) ==
    [i \in 1..Len(msgs) |->
       IF i \in ids /\ ~Includes(msgs[i].deliveredTo, u)
       THEN [msgs[i] EXCEPT !.deliveredTo = Append(@, u)]
       ELSE msgs[i]]

\* After the message query: the messages found are marked as delivered to the
\* user and returned.
fetchMark(k, threw) ==
    LET c == calls[k] IN
    /\ c.op \in {"getCommunityMessages", "getDirectMessages"}
    /\ c.pc = "query"
    /\ emitted' = EmptyBag
    /\ IF threw
       THEN /\ Throw(k, c.op, "threw")
            /\ UNCHANGED dbMessages
       ELSE /\ dbMessages' = MarkDelivered(dbMessages, c.data[1], c.user)
            /\ calls' = [calls EXCEPT ![k] = Idle]
            /\ last' = [NoOp EXCEPT !.op = c.op, !.user = c.user,
                                    !.target = IF c.community # Absent THEN c.community
                                               ELSE c.receiver,
                                    !.status = <<c.data[1], Reverse(c.data[2])>>,
                                    !.result = "ok"]
    /\ UNCHANGED <<sockState, sockUser, rooms, userSockets, pendingStatus,
                   pendingNotify, dbUsers, dbCommunities, dbPosts, handlers,
                   cache, now, dbTokens>>

\* deleteMessage up to the first await: Message.findById.
deleteFind(k, m, u) ==
    /\ calls[k].op = "idle"
    /\ \A i \in 1..Len(dbMessages) : Len(dbMessages[i].deletedFor) < MaxDeletedFor
    /\ calls' = [calls EXCEPT ![k] =
                   [Idle EXCEPT !.op = "deleteMessage", !.pc = "findById", !.user = u,
                                !.msg = m, !.snap = FindMessage(m)]]
    /\ emitted' = EmptyBag
    /\ last' = Awaiting
    /\ UNCHANGED <<sockState, sockUser, rooms, userSockets, pendingStatus,
                   pendingNotify, dbUsers, dbCommunities, dbMessages, dbPosts,
                   handlers, cache, now, dbTokens>>

\* message.save() of deleteMessage: isDeleted is set, and the user is pushed
\* onto deletedFor unless the sender deletes.
deleteSave(k) ==
    LET c == calls[k] IN
    /\ dbMessages' = [dbMessages EXCEPT
                        ![c.msg].isDeleted = TRUE,
                        ![c.msg].deletedFor = IF c.snap.doc.sender = c.user THEN @
                                              ELSE Append(@, c.user)]
    /\ calls' = [calls EXCEPT ![k] = Idle]
    /\ last' = [NoOp EXCEPT !.op = c.op, !.user = c.user, !.target = c.msg,
                            !.result = "ok"]

\* deleteMessage after Message.findById: not found throws; the sender saves;
\* for a community message of somebody else Community.findById is awaited; a
\* direct message of somebody else is refused.
deleteCheck(k, threw) ==
    LET c == calls[k] IN
    /\ c.op = "deleteMessage"
    /\ c.pc = "findById"
    /\ emitted' = EmptyBag
    /\ IF threw \/ ~c.snap.found
       THEN /\ Throw(k, c.op, "threw")
            /\ UNCHANGED dbMessages
       ELSE IF c.snap.doc.sender = c.user
       THEN deleteSave(k)
       ELSE IF c.snap.doc.community # Absent
       THEN /\ calls' = [calls EXCEPT ![k].pc = "communityFindById",
                                      ![k].csnap = FindCommunity(c.snap.doc.community)]
            /\ last' = Awaiting
            /\ UNCHANGED dbMessages
       ELSE /\ Throw(k, c.op, "403")
            /\ UNCHANGED dbMessages
    /\ UNCHANGED <<sockState, sockUser, rooms, userSockets, pendingStatus,
                   pendingNotify, dbUsers, dbCommunities, dbPosts, handlers,
                   cache, now, dbTokens>>

\* deleteMessage after Community.findById: moderators and the owner save.
deleteModerator(k, threw) ==
    LET c == calls[k] IN
    /\ c.op = "deleteMessage"
    /\ c.pc = "communityFindById"
    /\ emitted' = EmptyBag
    /\ IF threw \/ ~c.csnap.found \/ ~IsModerator(c.csnap.doc, c.user)
       THEN /\ Throw(k, c.op, "threw")
            /\ UNCHANGED dbMessages
       ELSE deleteSave(k)
    /\ UNCHANGED <<sockState, sockUser, rooms, userSockets, pendingStatus,
                   pendingNotify, dbUsers, dbCommunities, dbPosts, handlers,
                   cache, now, dbTokens>>

Emojis == {"like", "heart"}

\* addReaction / removeReaction up to the first await: Message.findById.
reactionFind(k, op, m, u, emoji) ==
    /\ calls[k].op = "idle"
    /\ op \in {"addReaction", "removeReaction"}
    /\ calls' = [calls EXCEPT ![k] =
                   [Idle EXCEPT !.op = op, !.pc = "findById", !.user = u, !.msg = m,
                                !.vote = emoji, !.snap = FindMessage(m)]]
    /\ emitted' = EmptyBag
    /\ last' = Awaiting
    /\ UNCHANGED <<sockState, sockUser, rooms, userSockets, pendingStatus,
                   pendingNotify, dbUsers, dbCommunities, dbMessages, dbPosts,
                   handlers, cache, now, dbTokens>>

\* reactions.filter(reaction => reaction.user !== userId)
WithoutUser(reactions, u) == SelectSeq(reactions, LAMBDA r : r.user # u)

\* Mutant: the new reaction is pushed without the filter.
Reacted_additive(c) ==
    Append(c.snap.doc.reactions, [user |-> c.user, emoji |-> c.vote])

\* The reactions array the call saves: the user's reaction filtered out and,
\* for addReaction, the new one pushed.
Reacted(c) ==
    IF c.op = "addReaction"
    THEN Append(WithoutUser(c.snap.doc.reactions, c.user),
                [user |-> c.user, emoji |-> c.vote])
    ELSE WithoutUser(c.snap.doc.reactions, c.user)

\* message.save() of a reaction call: the array in memory is written.
reactionSave(k) ==
    LET c == calls[k] IN
    /\ dbMessages' = [dbMessages EXCEPT ![c.msg].reactions = Reacted(c)]
    /\ calls' = [calls EXCEPT ![k] = Idle]
    /\ last' = [NoOp EXCEPT !.op = c.op, !.user = c.user, !.target = c.msg,
                            !.status = <<c.snap.doc.reactions, c.vote>>,
                            !.result = "ok"]

\* A reaction call after Message.findById: not found throws; removeReaction
\* saves; addReaction checks isParticipant, awaiting isCommunityMember for a
\* community message of somebody else.
reactionCheck(k, threw) ==
    LET c == calls[k] IN
    /\ c.op \in {"addReaction", "removeReaction"}
    /\ c.pc = "findById"
    /\ emitted' = EmptyBag
    /\ IF threw \/ ~c.snap.found
       THEN /\ Throw(k, c.op, "threw")
            /\ UNCHANGED dbMessages
       ELSE IF c.op = "removeReaction" \/ SenderOrReceiver(c.snap.doc, c.user)
       THEN reactionSave(k)
       ELSE IF c.snap.doc.community # Absent
       THEN /\ calls' = [calls EXCEPT ![k].pc = "isCommunityMember",
                                      ![k].csnap = FindCommunity(c.snap.doc.community)]
            /\ last' = Awaiting
            /\ UNCHANGED dbMessages
       ELSE /\ Throw(k, c.op, "threw")
            /\ UNCHANGED dbMessages
    /\ UNCHANGED <<sockState, sockUser, rooms, userSockets, pendingStatus,
                   pendingNotify, dbUsers, dbCommunities, dbPosts, handlers,
                   cache, now, dbTokens>>

\* addReaction after isCommunityMember.
reactionMember(k, threw) ==
    LET c == calls[k] IN
    /\ c.op = "addReaction"
    /\ c.pc = "isCommunityMember"
    /\ emitted' = EmptyBag
    /\ IF threw \/ ~c.csnap.found \/ ~IsMember(c.csnap.doc, c.user)
       THEN /\ Throw(k, c.op, "threw")
            /\ UNCHANGED dbMessages
       ELSE reactionSave(k)
    /\ UNCHANGED <<sockState, sockUser, rooms, userSockets, pendingStatus,
                   pendingNotify, dbUsers, dbCommunities, dbPosts, handlers,
                   cache, now, dbTokens>>

\* ----------------------------------------------------------- auth service
\* userSchema.methods.isLocked: lockUntil is set and lies in the future.
isLocked_never(doc) == FALSE

isLocked(doc) == doc.lockUntil # Absent /\ doc.lockUntil > now

NullUser == [isOnline |-> FALSE, loginAttempts |-> 0, lockUntil |-> Absent,
             communities |-> <<>>]

\* User.findOne({ email }) as the database answers it.
FindUser(u) ==
    IF u \in Users THEN [found |-> TRUE, doc |-> dbUsers[u]]
    ELSE [found |-> FALSE, doc |-> NullUser]

\* user.save() of the auth service: the paths assigned a new value are written.
SaveUser(stored, loaded, local) ==
    [stored EXCEPT
       !.loginAttempts = IF local.loginAttempts # loaded.loginAttempts
                         THEN local.loginAttempts ELSE @,
       !.lockUntil = IF local.lockUntil # loaded.lockUntil THEN local.lockUntil ELSE @]

\* The refresh token document Token.create stores for user u.  from is history,
\* no field of the document: the token whose refreshAuth issued this one
\* (NoSuchToken for a token issued by a login).
NewToken(u, from) ==
    [userId |-> u, type |-> "refresh", blacklisted |-> FALSE,
     expiresAt |-> now + TokenLife, from |-> from]

\* Token.findOne({token, type: 'refresh', blacklisted: false, expiresAt > now}).
FindToken(t) ==
    IF /\ t \in 1..Len(dbTokens)
       /\ dbTokens[t].type = "refresh"
       /\ ~dbTokens[t].blacklisted
       /\ dbTokens[t].expiresAt > now
    THEN [found |-> TRUE, doc |-> dbTokens[t]]
    ELSE [found |-> FALSE, doc |-> NewToken(NoSuchUser, NoSuchToken)]

\* refreshAuth up to the first await: Token.findOne.
refreshFind(k, t) ==
    /\ calls[k].op = "idle"
    /\ calls' = [calls EXCEPT ![k] =
                   [Idle EXCEPT !.op = "refreshAuth", !.pc = "findOne", !.msg = t,
                                !.snap = FindToken(t)]]
    /\ emitted' = EmptyBag
    /\ last' = Awaiting
    /\ UNCHANGED <<sockState, sockUser, rooms, userSockets, pendingStatus,
                   pendingNotify, dbUsers, dbCommunities, dbMessages, dbPosts,
                   handlers, cache, now, dbTokens>>

\* refreshAuth after Token.findOne: no document throws 401 'Invalid refresh
\* token'; otherwise User.findById is awaited.
refreshCheck(k) ==
    LET c == calls[k] IN
    /\ c.op = "refreshAuth"
    /\ c.pc = "findOne"
    /\ emitted' = EmptyBag
    /\ IF ~c.snap.found
       THEN /\ calls' = [calls EXCEPT ![k] = Idle]
            /\ last' = [NoOp EXCEPT !.op = c.op, !.target = c.msg, !.result = "401"]
       ELSE /\ calls' = [calls EXCEPT ![k].pc = "findById",
                                      ![k].user = c.snap.doc.userId]
            /\ last' = Awaiting
    /\ UNCHANGED <<sockState, sockUser, rooms, userSockets, pendingStatus,
                   pendingNotify, dbUsers, dbCommunities, dbMessages, dbPosts,
                   handlers, cache, now, dbTokens>>

\* refreshAuth after User.findById: tokenDoc.blacklisted = true and
\* tokenDoc.save(), which $sets the path on the stored document.
refreshBlacklist(k, threw) ==
    LET c == calls[k] IN
    /\ c.op = "refreshAuth"
    /\ c.pc = "findById"
    /\ emitted' = EmptyBag
    /\ IF threw
       THEN /\ calls' = [calls EXCEPT ![k] = Idle]
            /\ last' = [NoOp EXCEPT !.op = c.op, !.target = c.msg, !.result = "threw"]
            /\ UNCHANGED dbTokens
       ELSE /\ dbTokens' = [dbTokens EXCEPT ![c.msg].blacklisted = TRUE]
            /\ calls' = [calls EXCEPT ![k].pc = "saved"]
            /\ last' = Awaiting
    /\ UNCHANGED <<sockState, sockUser, rooms, userSockets, pendingStatus,
                   pendingNotify, dbUsers, dbCommunities, dbMessages, dbPosts,
                   handlers, cache, now>>

\* refreshAuth after the save: Token.create of the new refresh token, and the
\* new pair is returned.
refreshCreate(k, threw) ==
    LET c == calls[k] IN
    /\ c.op = "refreshAuth"
    /\ c.pc = "saved"
    /\ emitted' = EmptyBag
    /\ calls' = [calls EXCEPT ![k] = Idle]
    /\ IF threw
       THEN /\ last' = [NoOp EXCEPT !.op = c.op, !.target = c.msg, !.result = "threw"]
            /\ UNCHANGED dbTokens
       ELSE /\ dbTokens' = Append(dbTokens, NewToken(c.user, c.msg))
            /\ last' = [NoOp EXCEPT !.op = c.op, !.user = c.user, !.target = c.msg,
                                    !.status = <<Len(dbTokens) + 1>>, !.result = "ok"]
    /\ UNCHANGED <<sockState, sockUser, rooms, userSockets, pendingStatus,
                   pendingNotify, dbUsers, dbCommunities, dbMessages, dbPosts,
                   handlers, cache, now>>

\* logoutUser(refreshToken) without an access token: Token.findOneAndUpdate
\* blacklists the refresh token document, if there is one.
logoutUser(t) ==
    /\ dbTokens' = [i \in 1..Len(dbTokens) |->
                      IF i = t /\ dbTokens[i].type = "refresh"
                      THEN [dbTokens[i] EXCEPT !.blacklisted = TRUE]
                      ELSE dbTokens[i]]
    /\ emitted' = EmptyBag
    /\ last' = [NoOp EXCEPT !.op = "logoutUser", !.target = t, !.result = "ok"]
    /\ UNCHANGED <<sockState, sockUser, rooms, userSockets, pendingStatus,
                   pendingNotify, dbUsers, dbCommunities, dbMessages, dbPosts,
                   handlers, cache, now, calls>>

\* loginUser / resetPassword up to the first await: User.findOne.  For
\* resetPassword u is the user whose unexpired reset token the caller holds.
authFind(k, op, u) ==
    /\ calls[k].op = "idle"
    /\ op \in {"loginUser", "resetPassword"}
    /\ calls' = [calls EXCEPT ![k] =
                   [Idle EXCEPT !.op = op, !.pc = "findOne", !.user = u,
                                !.snap = FindUser(u)]]
    /\ emitted' = EmptyBag
    /\ last' = Awaiting
    /\ UNCHANGED <<sockState, sockUser, rooms, userSockets, pendingStatus,
                   pendingNotify, dbUsers, dbCommunities, dbMessages, dbPosts,
                   handlers, cache, now, dbTokens>>

\* loginUser after User.findOne: no user throws 401, a locked account 423;
\* otherwise comparePassword is awaited.
loginCheck(k) ==
    LET c == calls[k] IN
    /\ c.op = "loginUser"
    /\ c.pc = "findOne"
    /\ emitted' = EmptyBag
    /\ IF ~c.snap.found THEN Throw(k, c.op, "401")
       ELSE IF isLocked(c.snap.doc) THEN Throw(k, c.op, "423")
       ELSE /\ calls' = [calls EXCEPT ![k].pc = "comparePassword"]
            /\ last' = Awaiting
    /\ UNCHANGED <<sockState, sockUser, rooms, userSockets, pendingStatus,
                   pendingNotify, dbUsers, dbCommunities, dbMessages, dbPosts,
                   handlers, cache, now, dbTokens>>

\* What loginUser assigns to the user it loaded: a wrong password counts an
\* attempt and, from the fifth on, sets the lock; the right one resets both.
Attempted(doc, valid) ==
    IF valid THEN [doc EXCEPT !.loginAttempts = 0, !.lockUntil = Absent]
    ELSE [doc EXCEPT !.loginAttempts = @ + 1,
                     !.lockUntil = IF doc.loginAttempts + 1 >= MaxLoginAttempts
                                   THEN now + LockTime ELSE @]

\* loginUser after comparePassword (valid: its answer): user.save().
loginSave(k, valid, threw) ==
    LET c == calls[k] IN
    /\ c.op = "loginUser"
    /\ c.pc = "comparePassword"
    /\ emitted' = EmptyBag
    /\ IF threw
       THEN /\ Throw(k, c.op, "threw")
            /\ UNCHANGED dbUsers
       ELSE /\ dbUsers' = [dbUsers EXCEPT ![c.user] =
                              SaveUser(@, c.snap.doc, Attempted(c.snap.doc, valid))]
            /\ calls' = [calls EXCEPT ![k].pc = IF valid THEN "tokens" ELSE "failed"]
            /\ last' = Awaiting
    /\ UNCHANGED <<sockState, sockUser, rooms, userSockets, pendingStatus,
                   pendingNotify, dbCommunities, dbMessages, dbPosts, handlers,
                   cache, now, dbTokens>>

\* loginUser after the save: 401 for the wrong password; generateTokens
\* (Token.create) and the result for the right one.
loginReturn(k, threw) ==
    LET c == calls[k] IN
    /\ c.op = "loginUser"
    /\ c.pc \in {"tokens", "failed"}
    /\ emitted' = EmptyBag
    /\ IF c.pc = "failed" THEN Throw(k, c.op, "401") /\ UNCHANGED dbTokens
       ELSE IF threw THEN Throw(k, c.op, "threw") /\ UNCHANGED dbTokens
       ELSE /\ dbTokens' = Append(dbTokens, NewToken(c.user, NoSuchToken))
            /\ calls' = [calls EXCEPT ![k] = Idle]
            /\ last' = [NoOp EXCEPT !.op = c.op, !.user = c.user, !.result = "ok"]
    /\ UNCHANGED <<sockState, sockUser, rooms, userSockets, pendingStatus,
                   pendingNotify, dbUsers, dbCommunities, dbMessages, dbPosts,
                   handlers, cache, now>>

\* resetPassword after User.findOne: the attempts and the lock are reset with
\* the password.
resetSave(k, threw) ==
    LET c == calls[k] IN
    /\ c.op = "resetPassword"
    /\ c.pc = "findOne"
    /\ emitted' = EmptyBag
    /\ IF threw \/ ~c.snap.found
       THEN /\ Throw(k, c.op, "threw")
            /\ UNCHANGED dbUsers
       ELSE /\ dbUsers' = [dbUsers EXCEPT ![c.user] =
                              SaveUser(@, c.snap.doc, Attempted(c.snap.doc, TRUE))]
            /\ calls' = [calls EXCEPT ![k] = Idle]
            /\ last' = [NoOp EXCEPT !.op = c.op, !.user = c.user, !.result = "ok"]
    /\ UNCHANGED <<sockState, sockUser, rooms, userSockets, pendingStatus,
                   pendingNotify, dbCommunities, dbMessages, dbPosts, handlers,
                   cache, now, dbTokens>>

\* --------------------------------------------------- registered handlers
SocketEvents ==
    {"join_community", "leave_community", "send_message", "typing_start",
     "typing_stop", "read_receipt", "upvote_post", "downvote_post", "new_comment",
     "update_presence", "heartbeat"}

\* What becomes of an exception raised while the handler of event ev runs:
\* "emit_error" (the catch block emits 'error' to the socket), "log_only" (the
\* catch block only logs) or "uncaught" (nothing catches it: registerHandlers
\* binds downvote_post to this.handleDownvotePost, which SocketServer does not
\* define, so the listener itself throws a TypeError on every event).
CatchOf(ev) ==
    CASE ev \in {"join_community", "leave_community", "send_message", "read_receipt",
                 "upvote_post", "new_comment"} -> "emit_error"
      [] ev \in {"typing_start", "typing_stop", "update_presence", "heartbeat"}
             -> "log_only"
      [] ev = "downvote_post" -> "uncaught"

\* The handler of event ev, received on socket s, fails: a malformed payload
\* (data undefined, so destructuring it throws), a rejected service call or
\* database operation, or, for downvote_post, the missing method.
HandlerFails(s, ev) ==
    /\ sockState[s] = "open"
    /\ emitted' = IF CatchOf(ev) = "emit_error" THEN SocketEmit(s, "error", 0, 0)
                  ELSE EmptyBag
    /\ last' = [NoOp EXCEPT !.op = ev, !.sock = s, !.user = sockUser[s],
                            !.result = IF CatchOf(ev) = "uncaught" THEN "uncaught"
                                       ELSE "threw"]
    /\ UNCHANGED <<sockState, sockUser, rooms, userSockets, pendingStatus,
                   pendingNotify, dbUsers, dbCommunities, dbMessages, calls,
                   handlers, dbPosts, cache, now, dbTokens>>

\* handleTypingStart / handleTypingStop: user_typing to the community room or to
\* the receiver's inbox room.
handleTyping(s, c, r, isTyping) ==
    /\ sockState[s] = "open"
    /\ emitted' = IF c # Absent
                  THEN SocketToEmit(s, CommunityRoom(c), "user_typing", sockUser[s],
                                    IF isTyping THEN 1 ELSE 0)
                  ELSE IF r # Absent
                  THEN SocketToEmit(s, UserRoom(r), "user_typing", sockUser[s],
                                    IF isTyping THEN 1 ELSE 0)
                  ELSE EmptyBag
    /\ last' = [NoOp EXCEPT !.op = IF isTyping THEN "typing_start" ELSE "typing_stop",
                            !.sock = s, !.user = sockUser[s], !.target = c,
                            !.result = "ok"]
    /\ UNCHANGED <<sockState, sockUser, rooms, userSockets, pendingStatus,
                   pendingNotify, dbUsers, dbCommunities, dbMessages, calls,
                   handlers, dbPosts, cache, now, dbTokens>>

\* ------------------------------------------------------------------- Init
\* Community c was created by createCommunity with owner 1: the owner is its
\* only member (role admin), memberCount 1, and the community is in the owner's
\* communities list.
Init ==
    /\ sockState = [s \in Sockets |-> "fresh"]
    /\ sockUser = [s \in Sockets |-> 0]
    /\ rooms = [s \in Sockets |-> {}]
    /\ userSockets = <<>>
    /\ pendingStatus = EmptyBag
    /\ pendingNotify = EmptyBag
    /\ dbUsers = [u \in Users |->
                    [isOnline |-> FALSE, loginAttempts |-> 0, lockUntil |-> Absent,
                     communities |-> IF u = 1 THEN [i \in 1..NumCommunities |-> i]
                                     ELSE <<>>]]
    /\ dbCommunities = [c \in Communities |->
                          [isActive |-> TRUE, owner |-> 1,
                           members |-> <<[user |-> 1, role |-> "admin"]>>,
                           moderators |-> <<>>,
                           privacy |-> "public", joinMethod |-> "open",
                           memberCount |-> 1,
                           postCount |-> IF c = 1 THEN NumPosts ELSE 0,
                           slug |-> c, postPermissions |-> "all", version |-> 0]]
    /\ dbMessages = <<>>
    /\ dbPosts = [p \in Posts |-> NewPost]
    /\ cache = <<>>
    /\ now = 0
    /\ dbTokens = <<>>
    /\ calls = [k \in Calls |-> Idle]
    /\ handlers = [s \in Sockets |-> Idle]
    /\ emitted = EmptyBag
    /\ last = NoOp

NextPresence ==
    \/ \E s \in Sockets, u \in Users : Connection(s, u)
    \/ \E s \in Sockets : Disconnect(s)
    \/ \E w \in BagToSet(pendingStatus) : updateUserStatus(w)
    \/ \E n \in BagToSet(pendingNotify) : notifyCommunities(n)

SpecPresence == Init /\ [][NextPresence]_vars

\* Every authenticated connection is open and the status writes and lookups of
\* the connection events have completed: each socket belongs to some user.
InitChat ==
    /\ sockState = [s \in Sockets |-> "open"]
    /\ sockUser \in [Sockets -> Users]
    /\ rooms = [s \in Sockets |-> {UserRoom(sockUser[s]), PresenceRoom(sockUser[s])}]
    /\ userSockets = [u \in {sockUser[s] : s \in Sockets} |->
                        {s \in Sockets : sockUser[s] = u}]
    /\ pendingStatus = EmptyBag
    /\ pendingNotify = EmptyBag
    /\ dbUsers = [u \in Users |->
                    [isOnline |-> \E s \in Sockets : sockUser[s] = u,
                 loginAttempts |-> 0, lockUntil |-> Absent,
                     communities |-> IF u = 1 THEN [i \in 1..NumCommunities |-> i]
                                     ELSE <<>>]]
    /\ dbCommunities = [c \in Communities |->
                          [isActive |-> TRUE, owner |-> 1,
                           members |-> <<[user |-> 1, role |-> "admin"]>>,
                           moderators |-> <<>>,
                           privacy |-> "public", joinMethod |-> "open",
                           memberCount |-> 1,
                           postCount |-> IF c = 1 THEN NumPosts ELSE 0,
                           slug |-> c, postPermissions |-> "all", version |-> 0]]
    /\ dbMessages = <<>>
    /\ dbPosts = [p \in Posts |-> NewPost]
    /\ cache = <<>>
    /\ now = 0
    /\ dbTokens = <<>>
    /\ calls = [k \in Calls |-> Idle]
    /\ handlers = [s \in Sockets |-> Idle]
    /\ emitted = EmptyBag
    /\ last = NoOp

CommunityInputs == Communities \cup {NoSuchCommunity}

\* What the moderation call of sendMessage came to: not made (content of at most
\* 10 characters), a verdict, or the safe default of a failed analysis.
ModerationOutcomes == {"skipped", "clean", "flagged", "unavailable"}

NextChat ==
    \/ \E s \in Sockets, c \in CommunityInputs : JoinCommunityFind(s, c)
    \/ \E s \in Sockets, threw \in BOOLEAN : JoinCommunityAdmit(s, threw)
    \/ \E s \in Sockets, c \in Communities : handleLeaveCommunity(s, c)
    \/ \E k \in Calls, c \in CommunityInputs, u \in Users : joinCommunityFind(k, c, u)
    \/ \E k \in Calls : joinCommunitySave(k)
    \/ \E k \in Calls : joinCommunityUser(k)
    \/ \E k \in Calls, c \in CommunityInputs, u \in Users : leaveCommunityFind(k, c, u)
    \/ \E k \in Calls : leaveCommunitySave(k)
    \/ \E k \in Calls : leaveCommunityUser(k)
    \/ \E k \in Calls : clearPatterns(k)

SpecChat == InitChat /\ [][NextChat]_vars

\* As InitChat, and each community has the members a run of joinCommunity calls
\* left it with: the owner, or the owner and user 2 after user 2 joined.
InitSend ==
    /\ sockState = [s \in Sockets |-> "open"]
    /\ sockUser \in [Sockets -> Users]
    /\ rooms = [s \in Sockets |-> {UserRoom(sockUser[s]), PresenceRoom(sockUser[s])}]
    /\ userSockets = [u \in {sockUser[s] : s \in Sockets} |->
                        {s \in Sockets : sockUser[s] = u}]
    /\ pendingStatus = EmptyBag
    /\ pendingNotify = EmptyBag
    /\ \E joined \in SUBSET Communities :
          /\ dbUsers = [u \in Users |->
                [isOnline |-> \E s \in Sockets : sockUser[s] = u,
                 loginAttempts |-> 0, lockUntil |-> Absent,
                 communities |->
                    IF u = 1 THEN [i \in 1..NumCommunities |-> i]
                    ELSE IF u = 2
                    THEN SelectSeq([i \in 1..NumCommunities |-> i],
                                   LAMBDA c : c \in joined)
                    ELSE <<>>]]
          /\ dbCommunities = [c \in Communities |->
                [isActive |-> TRUE, owner |-> 1,
                 members |-> IF c \in joined
                             THEN <<[user |-> 1, role |-> "admin"],
                                    [user |-> 2, role |-> "member"]>>
                             ELSE <<[user |-> 1, role |-> "admin"]>>,
                 moderators |-> <<>>,
                 privacy |-> "public", joinMethod |-> "open",
                 memberCount |-> IF c \in joined THEN 2 ELSE 1,
                 postCount |-> IF c = 1 THEN NumPosts ELSE 0, slug |-> c, postPermissions |-> "all",
                 version |-> IF c \in joined THEN 1 ELSE 0]]
    /\ dbMessages = <<>>
    /\ dbPosts = [p \in Posts |-> NewPost]
    /\ cache = <<>>
    /\ now = 0
    /\ dbTokens = <<>>
    /\ calls = [k \in Calls |-> Idle]
    /\ handlers = [s \in Sockets |-> Idle]
    /\ emitted = EmptyBag
    /\ last = NoOp

NextSend ==
    \/ \E s \in Sockets : Disconnect(s)
    \/ \E s \in Sockets, c \in CommunityInputs : JoinCommunityFind(s, c)
    \/ \E s \in Sockets, threw \in BOOLEAN : JoinCommunityAdmit(s, threw)
    \/ \E s \in Sockets, c \in Communities : handleLeaveCommunity(s, c)
    \/ \E s \in Sockets, c \in CommunityInputs \cup {Absent},
          r \in Users \cup {NoSuchUser, Absent} :
             Len(dbMessages) < MaxMessages /\ SendMessageLookup(s, c, r)
    \/ \E s \in Sockets, threw \in BOOLEAN, ai \in ModerationOutcomes :
          SendMessageCreate(s, threw, ai)
    \/ \E s \in Sockets : SendMessageEmit(s)

SpecSend == InitSend /\ [][NextSend]_vars

\* Connections join and leave the chat view of a community and send community
\* messages, while leaveCommunity and deleteCommunity calls of the REST API
\* run, one call at a time.
NextRooms ==
    \/ \E s \in Sockets, c \in Communities : JoinCommunityFind(s, c)
    \/ \E s \in Sockets, threw \in BOOLEAN : JoinCommunityAdmit(s, threw)
    \/ \E s \in Sockets, c \in Communities : handleLeaveCommunity(s, c)
    \/ \E c \in Communities, u \in Users : leaveCommunityFind(1, c, u)
    \/ leaveCommunitySave(1)
    \/ leaveCommunityUser(1)
    \/ \E c \in Communities, u \in Users :
          communityFind(1, "deleteCommunity", c, u, u, Body({}, "public", TRUE, u))
    \/ communityCheck(1, FALSE)
    \/ deleteCommunityUsers(1, FALSE)
    \/ clearPatterns(1)
    \/ \E s \in Sockets, c \in Communities :
          Len(dbMessages) < MaxMessages /\ SendMessageLookup(s, c, Absent)
    \/ \E s \in Sockets, threw \in BOOLEAN : SendMessageCreate(s, threw, "skipped")
    \/ \E s \in Sockets : SendMessageEmit(s)

SpecRooms == InitSend /\ [][NextRooms]_vars

NextEvents ==
    \/ \E s \in Sockets, u \in Users : Connection(s, u)
    \/ \E s \in Sockets : Disconnect(s)
    \/ \E w \in BagToSet(pendingStatus) : updateUserStatus(w)
    \/ \E n \in BagToSet(pendingNotify) : notifyCommunities(n)
    \/ \E s \in Sockets, c \in CommunityInputs : JoinCommunityFind(s, c)
    \/ \E s \in Sockets, threw \in BOOLEAN : JoinCommunityAdmit(s, threw)
    \/ \E s \in Sockets, c \in Communities : handleLeaveCommunity(s, c)
    \/ \E s \in Sockets, c \in Communities \cup {Absent}, r \in Users \cup {Absent},
          isTyping \in BOOLEAN : handleTyping(s, c, r, isTyping)
    \/ \E s \in Sockets, ev \in SocketEvents : HandlerFails(s, ev)

SpecEvents == Init /\ [][NextEvents]_vars

\* The posts collection holds posts that were created and, some of them, soft
\* deleted by deletePost; nobody has voted yet.
InitVote ==
    /\ sockState = [s \in Sockets |-> "fresh"]
    /\ sockUser = [s \in Sockets |-> 0]
    /\ rooms = [s \in Sockets |-> {}]
    /\ userSockets = <<>>
    /\ pendingStatus = EmptyBag
    /\ pendingNotify = EmptyBag
    /\ dbPosts \in [Posts -> {NewPost, [NewPost EXCEPT !.isDeleted = TRUE]}]
    /\ dbUsers = [u \in Users |->
                    [isOnline |-> FALSE, loginAttempts |-> 0, lockUntil |-> Absent,
                     communities |-> IF u = 1 THEN [i \in 1..NumCommunities |-> i]
                                     ELSE <<>>]]
    /\ dbCommunities = [c \in Communities |->
                          [isActive |-> TRUE, owner |-> 1,
                           members |-> <<[user |-> 1, role |-> "admin"]>>,
                           moderators |-> <<>>,
                           privacy |-> "public", joinMethod |-> "open",
                           memberCount |-> 1,
                           postCount |-> LivePosts(dbPosts, c),
                           slug |-> c, postPermissions |-> "all", version |-> 0]]
    /\ dbMessages = <<>>
    /\ cache = <<>>
    /\ now = 0
    /\ dbTokens = <<>>
    /\ calls = [k \in Calls |-> Idle]
    /\ handlers = [s \in Sockets |-> Idle]
    /\ emitted = EmptyBag
    /\ last = NoOp

PostInputs == Posts \cup {NoSuchPost}

\* Vote calls run one at a time: a call starts only when no call is in flight.
NextVoteSeq ==
    \/ \E k \in Calls, p \in PostInputs, u \in Users, vote \in {"up", "down"} :
          /\ \A j \in Calls : calls[j].op = "idle"
          /\ votePostFind(k, p, u, vote)
    \/ \E k \in Calls, threw \in BOOLEAN : votePostSave(k, threw)
    \/ \E k \in Calls : clearPatterns(k)

SpecVoteSeq == InitVote /\ [][NextVoteSeq]_vars

\* upvote_post events and downvotePost calls of the REST API, one at a time.
NextUpvoteSeq ==
    \/ \E s \in Sockets, p \in PostInputs : handleUpvotePost(s, 1, p)
    \/ \E p \in PostInputs, u \in Users : votePostFind(1, p, u, "down")
    \/ \E threw \in BOOLEAN : handleUpvotePostCatch(1, threw)
    \/ \E threw \in BOOLEAN :
          /\ calls[1].sock # 0 =>
                ~threw /\ calls[1].snap.found /\ ~calls[1].snap.doc.isDeleted
          /\ votePostSave(1, threw)
    \/ /\ calls[1].sock = 0 \/ Len(calls[1].todo) > 1
       /\ clearPatterns(1)
    \/ handleUpvotePostEmit(1)
    \/ \E s \in Sockets, c \in CommunityInputs : JoinCommunityFind(s, c)
    \/ \E s \in Sockets, threw \in BOOLEAN : JoinCommunityAdmit(s, threw)

SpecUpvoteSeq == InitSend /\ [][NextUpvoteSeq]_vars

\* Vote calls interleave at their awaits.
NextVote ==
    \/ \E k \in Calls, p \in PostInputs, u \in Users, vote \in {"up", "down"} :
          votePostFind(k, p, u, vote)
    \/ \E k \in Calls, threw \in BOOLEAN : votePostSave(k, threw)
    \/ \E k \in Calls : clearPatterns(k)

SpecVote == InitVote /\ [][NextVote]_vars

\* The posts collection holds posts that createPost made and deletePost soft
\* deleted, or is empty; both users are members of the community, user 1 owns
\* it; nothing is cached.
InitPost ==
    /\ sockState = [s \in Sockets |-> "fresh"]
    /\ sockUser = [s \in Sockets |-> 0]
    /\ rooms = [s \in Sockets |-> {}]
    /\ userSockets = <<>>
    /\ pendingStatus = EmptyBag
    /\ pendingNotify = EmptyBag
    /\ dbPosts \in [Posts -> {NewPost, [NewPost EXCEPT !.isDeleted = TRUE],
                              [NewPost EXCEPT !.exists = FALSE]}]
    /\ dbUsers = [u \in Users |->
                    [isOnline |-> FALSE, loginAttempts |-> 0, lockUntil |-> Absent,
                     communities |-> [i \in 1..NumCommunities |-> i]]]
    /\ dbCommunities = [c \in Communities |->
                          [isActive |-> TRUE, owner |-> 1,
                           members |-> [u \in Users |->
                                          [user |-> u,
                                           role |-> IF u = 1 THEN "admin"
                                                    ELSE "member"]],
                           moderators |-> <<>>,
                           privacy |-> "public", joinMethod |-> "open",
                           memberCount |-> NumUsers,
                           postCount |-> LivePosts(dbPosts, c),
                           slug |-> c, postPermissions |-> "all", version |-> 0]]
    /\ dbMessages = <<>>
    /\ cache = <<>>
    /\ now = 0
    /\ dbTokens = <<>>
    /\ calls = [k \in Calls |-> Idle]
    /\ handlers = [s \in Sockets |-> Idle]
    /\ emitted = EmptyBag
    /\ last = NoOp

\* Who reads a post: a signed-in user or an anonymous visitor.
Viewers == {1, Absent}

\* A post service call starts in slot k.
PostCallStarts(k) ==
    \/ \E p \in PostInputs, u \in Users, vote \in {"up", "down"} :
          votePostFind(k, p, u, vote)
    \/ \E op \in PostMutations, p \in PostInputs, u \in Users, title \in Titles :
          postFind(k, op, p, u, title)
    \/ \E c \in CommunityInputs, u \in Users : createPostFind(k, c, u)
    \/ \E c \in Communities, sort \in Sorts : listGet(k, c, sort)
    \/ \E p \in PostInputs, viewer \in Viewers : postGet(k, p, viewer)

\* A post service call in slot k resumes after an await.
PostCallResumes(k) ==
    \/ \E threw \in BOOLEAN : votePostSave(k, threw)
    \/ \E threw \in BOOLEAN : postCheck(k, threw)
    \/ \E threw \in BOOLEAN : postPermission(k, threw)
    \/ \E threw \in BOOLEAN : deletePostStats(k, threw)
    \/ \E threw \in BOOLEAN : createPostCreate(k, threw, "skipped")
    \/ \E threw \in BOOLEAN : createPostStats(k, threw)
    \/ clearPatterns(k)
    \/ listPinned(k)
    \/ \E threw \in BOOLEAN : listCount(k, threw)
    \/ \E threw \in BOOLEAN : listPosts(k, threw)
    \/ \E threw \in BOOLEAN : listSet(k, threw)
    \/ postRead(k)
    \/ \E threw \in BOOLEAN : postSet(k, threw)

\* Post service calls run one at a time, each in the first slot once the one
\* before it has ended; cache entries expire.
NextPostSeq ==
    \/ PostCallStarts(1)
    \/ PostCallResumes(1)
    \/ \E key \in DOMAIN cache : Expire(key)

SpecPostSeq == InitPost /\ [][NextPostSeq]_vars

\* Posts are created and deleted, one call at a time, with content of every
\* length and every outcome of the moderation call.
NextCreateSeq ==
    \/ \E c \in CommunityInputs, u \in Users : createPostFind(1, c, u)
    \/ \E threw \in BOOLEAN, ai \in ModerationOutcomes : createPostCreate(1, threw, ai)
    \/ \E threw \in BOOLEAN : createPostStats(1, threw)
    \/ \E p \in PostInputs, u \in Users : postFind(1, "deletePost", p, u, 1)
    \/ \E threw \in BOOLEAN : postCheck(1, threw)
    \/ \E threw \in BOOLEAN : postPermission(1, threw)
    \/ \E threw \in BOOLEAN : deletePostStats(1, threw)
    \/ clearPatterns(1)

SpecCreateSeq == InitPost /\ [][NextCreateSeq]_vars

\* createPost and deletePost calls, one at a time, each running to its end: no
\* database operation rejects.
NextCountSeq ==
    \/ \E c \in CommunityInputs, u \in Users : createPostFind(1, c, u)
    \/ \E ai \in ModerationOutcomes : createPostCreate(1, FALSE, ai)
    \/ createPostStats(1, FALSE)
    \/ \E p \in PostInputs, u \in Users : postFind(1, "deletePost", p, u, 1)
    \/ postCheck(1, FALSE)
    \/ postPermission(1, FALSE)
    \/ deletePostStats(1, FALSE)
    \/ clearPatterns(1)

SpecCountSeq == InitPost /\ [][NextCountSeq]_vars

\* Logins and password resets, interleaved at their awaits, while time passes.
NextLogin ==
    \/ \E k \in Calls, op \in {"loginUser", "resetPassword"},
          u \in LoginUsers \cup {NoSuchUser} :
          /\ \A v \in Users : dbUsers[v].loginAttempts < MaxAttempts
          /\ Len(dbTokens) + Cardinality({j \in Calls : calls[j].op = "loginUser"})
                < MaxTokens
          /\ authFind(k, op, u)
    \/ \E k \in Calls : loginCheck(k)
    \/ \E k \in Calls, valid \in BOOLEAN, threw \in BOOLEAN : loginSave(k, valid, threw)
    \/ \E k \in Calls, threw \in BOOLEAN : loginReturn(k, threw)
    \/ \E k \in Calls, threw \in BOOLEAN : resetSave(k, threw)
    \/ Tick

SpecLogin == Init /\ [][NextLogin]_vars

\* The tokens collection after one login of user 1.
InitRefresh ==
    /\ sockState = [s \in Sockets |-> "fresh"]
    /\ sockUser = [s \in Sockets |-> 0]
    /\ rooms = [s \in Sockets |-> {}]
    /\ userSockets = <<>>
    /\ pendingStatus = EmptyBag
    /\ pendingNotify = EmptyBag
    /\ dbUsers = [u \in Users |->
                    [isOnline |-> FALSE, loginAttempts |-> 0, lockUntil |-> Absent,
                     communities |-> IF u = 1 THEN [i \in 1..NumCommunities |-> i]
                                     ELSE <<>>]]
    /\ dbCommunities = [c \in Communities |->
                          [isActive |-> TRUE, owner |-> 1,
                           members |-> <<[user |-> 1, role |-> "admin"]>>,
                           moderators |-> <<>>,
                           privacy |-> "public", joinMethod |-> "open",
                           memberCount |-> 1,
                           postCount |-> IF c = 1 THEN NumPosts ELSE 0,
                           slug |-> c, postPermissions |-> "all", version |-> 0]]
    /\ dbMessages = <<>>
    /\ dbPosts = [p \in Posts |-> NewPost]
    /\ cache = <<>>
    /\ now = 0
    /\ dbTokens = <<NewToken(1, NoSuchToken)>>
    /\ calls = [k \in Calls |-> Idle]
    /\ handlers = [s \in Sockets |-> Idle]
    /\ emitted = EmptyBag
    /\ last = NoOp

TokenInputs == (1..MaxTokens) \cup {NoSuchToken}

\* refreshAuth calls interleave at their awaits with each other and with
\* logouts, while time passes.
NextRefresh ==
    \/ \E k \in Calls, t \in TokenInputs :
          /\ Len(dbTokens) + Cardinality({j \in Calls : calls[j].op = "refreshAuth"})
                < MaxTokens
          /\ refreshFind(k, t)
    \/ \E k \in Calls : refreshCheck(k)
    \/ \E k \in Calls, threw \in BOOLEAN : refreshBlacklist(k, threw)
    \/ \E k \in Calls, threw \in BOOLEAN : refreshCreate(k, threw)
    \/ \E t \in TokenInputs : logoutUser(t)
    \/ Tick

SpecRefresh == InitRefresh /\ [][NextRefresh]_vars

\* A read of the post service starts in slot k, or resumes.
ReadStarts(k) ==
    \/ \E c \in Communities : listGet(k, c, "-score")
    \/ \E p \in PostInputs : postGet(k, p, Absent)

ReadResumes(k) ==
    \/ listPinned(k)
    \/ \E threw \in BOOLEAN : listCount(k, threw)
    \/ \E threw \in BOOLEAN : listPosts(k, threw)
    \/ \E threw \in BOOLEAN : listSet(k, threw)
    \/ postRead(k)
    \/ \E threw \in BOOLEAN : postSet(k, threw)

\* Who mutates while reads are in flight: the owner, who wrote the posts.
Editors == {1}

\* A mutation of the post service starts in slot k, or resumes with no
\* database operation rejecting.
MutationStarts(k) ==
    \/ \E p \in PostInputs, u \in Editors, vote \in {"up", "down"} :
          votePostFind(k, p, u, vote)
    \/ \E op \in PostMutations, p \in PostInputs, u \in Editors, title \in Titles :
          postFind(k, op, p, u, title)
    \/ \E c \in CommunityInputs, u \in Editors : createPostFind(k, c, u)

MutationResumes(k) ==
    \/ votePostSave(k, FALSE)
    \/ postCheck(k, FALSE)
    \/ postPermission(k, FALSE)
    \/ deletePostStats(k, FALSE)
    \/ createPostCreate(k, FALSE, "skipped")
    \/ createPostStats(k, FALSE)
    \/ clearPatterns(k)

\* Reads, one at a time in the first slot, interleave at their awaits with
\* mutations, one at a time in the second slot; cache entries expire.
NextPost ==
    \/ ReadStarts(1)
    \/ ReadResumes(1)
    \/ MutationStarts(2)
    \/ MutationResumes(2)
    \/ \E key \in DOMAIN cache : Expire(key)

SpecPost == InitPost /\ [][NextPost]_vars

\* Votes and mutations of existing posts run one at a time while time passes.
NextScoreSeq ==
    \/ \E p \in PostInputs, u \in Users, vote \in {"up", "down"} :
          votePostFind(1, p, u, vote)
    \/ \E op \in PostMutations, p \in PostInputs, u \in Users, title \in Titles :
          postFind(1, op, p, u, title)
    \/ \E threw \in BOOLEAN : votePostSave(1, threw)
    \/ \E threw \in BOOLEAN : postCheck(1, threw)
    \/ \E threw \in BOOLEAN : postPermission(1, threw)
    \/ \E threw \in BOOLEAN : deletePostStats(1, threw)
    \/ clearPatterns(1)
    \/ Tick

SpecScoreSeq == InitPost /\ [][NextScoreSeq]_vars

\* The slugs a read by slug names: those of the communities and one no
\* community has.
SlugInputs == Communities \cup {NoSuchCommunity}

\* Community service calls run one at a time, each in the first slot once the
\* one before it has ended; cache entries expire.  The community starts as
\* createCommunity leaves it, with its owner as the only member.
NextCommunitySeq ==
    \/ \E c \in CommunityInputs, flag \in {"true", "false"} :
          communityGet(1, "getCommunityById", c, flag)
    \/ \E slug \in SlugInputs : communityGet(1, "getCommunityBySlug", slug, "slug")
    \/ communityRead(1)
    \/ \E threw \in BOOLEAN : communitySet(1, threw)
    \/ \E c \in CommunityInputs, u \in Users : joinCommunityFind(1, c, u)
    \/ joinCommunitySave(1)
    \/ joinCommunityUser(1)
    \/ \E c \in CommunityInputs, u \in Users : leaveCommunityFind(1, c, u)
    \/ leaveCommunitySave(1)
    \/ leaveCommunityUser(1)
    \/ \E op \in CommunityUpdates, c \in CommunityInputs, u \in Users, m \in Users,
          body \in PrivacyBodies : communityFind(1, op, c, u, m, body)
    \/ \E threw \in BOOLEAN : communityCheck(1, threw)
    \/ \E threw \in BOOLEAN : addModeratorSave(1, threw)
    \/ \E threw \in BOOLEAN : deleteCommunityUsers(1, threw)
    \/ clearPatterns(1)
    \/ \E key \in DOMAIN cache : Expire(key)

InitCommunity == InitVote /\ dbPosts = [p \in Posts |-> NewPost]

SpecCommunitySeq == InitCommunity /\ [][NextCommunitySeq]_vars

\* The operations that change a community run one at a time, with every
\* request body of updateCommunity; nothing is read through the cache.
NextCommunityOps ==
    \/ \E c \in CommunityInputs, u \in Users : joinCommunityFind(1, c, u)
    \/ joinCommunitySave(1)
    \/ joinCommunityUser(1)
    \/ \E c \in CommunityInputs, u \in Users : leaveCommunityFind(1, c, u)
    \/ leaveCommunitySave(1)
    \/ leaveCommunityUser(1)
    \/ \E op \in CommunityUpdates, c \in CommunityInputs, u \in Users, m \in Users,
          body \in UpdateBodies : communityFind(1, op, c, u, m, body)
    \/ \E threw \in BOOLEAN : communityCheck(1, threw)
    \/ \E threw \in BOOLEAN : addModeratorSave(1, threw)
    \/ \E threw \in BOOLEAN : deleteCommunityUsers(1, threw)
    \/ clearPatterns(1)

SpecCommunityOps == InitCommunity /\ [][NextCommunityOps]_vars

\* The same operations, one at a time, each running to its end: no database
\* operation rejects.
NextCommunityRuns ==
    \/ \E c \in CommunityInputs, u \in Users : joinCommunityFind(1, c, u)
    \/ joinCommunitySave(1)
    \/ joinCommunityUser(1)
    \/ \E c \in CommunityInputs, u \in Users : leaveCommunityFind(1, c, u)
    \/ leaveCommunitySave(1)
    \/ leaveCommunityUser(1)
    \/ \E op \in CommunityUpdates, c \in CommunityInputs, u \in Users, m \in Users,
          body \in UpdateBodies : communityFind(1, op, c, u, m, body)
    \/ communityCheck(1, FALSE)
    \/ addModeratorSave(1, FALSE)
    \/ deleteCommunityUsers(1, FALSE)
    \/ clearPatterns(1)

SpecCommunityRuns == InitCommunity /\ [][NextCommunityRuns]_vars

MessageInputs == (1..MaxMessages) \cup {NoSuchMessage}

\* Nothing is in flight: no handler and no service call.
Quiet ==
    /\ \A s \in Sockets : handlers[s].op = "idle"
    /\ \A k \in Calls : calls[k].op = "idle"

\* Messages are sent, fetched, marked as read and reacted to, one call at a
\* time.
NextMessagesSeq ==
    \/ \E s \in Sockets, c \in CommunityInputs \cup {Absent}, r \in Users \cup {Absent} :
          Quiet /\ Len(dbMessages) < MaxMessages /\ SendMessageLookup(s, c, r)
    \/ \E s \in Sockets, threw \in BOOLEAN, ai \in ModerationOutcomes :
          SendMessageCreate(s, threw, ai)
    \/ \E s \in Sockets : SendMessageEmit(s)
    \/ \E s \in Sockets, m \in MessageInputs : Quiet /\ ReadReceiptFind(s, m)
    \/ \E s \in Sockets, threw \in BOOLEAN : ReadReceiptCheck(s, threw)
    \/ \E s \in Sockets, threw \in BOOLEAN : ReadReceiptMember(s, threw)
    \/ \E s \in Sockets, threw \in BOOLEAN : ReadReceiptEmit(s, threw)
    \/ \E c \in CommunityInputs, u \in Users : Quiet /\ fetchFind(1, c, Absent, u)
    \/ \E other \in Users, u \in Users : Quiet /\ fetchFind(1, Absent, other, u)
    \/ \E threw \in BOOLEAN : fetchQuery(1, threw)
    \/ \E threw \in BOOLEAN : fetchMark(1, threw)
    \/ \E op \in {"addReaction", "removeReaction"}, m \in MessageInputs, u \in Users,
          emoji \in Emojis : Quiet /\ reactionFind(1, op, m, u, emoji)
    \/ \E threw \in BOOLEAN : reactionCheck(1, threw)
    \/ \E threw \in BOOLEAN : reactionMember(1, threw)

SpecMessagesSeq == InitSend /\ [][NextMessagesSeq]_vars

\* Messages are sent, fetched and deleted, one call at a time; the content of
\* the messages is short enough to go unmoderated.
NextHistorySeq ==
    \/ \E s \in Sockets, c \in CommunityInputs \cup {Absent}, r \in Users \cup {Absent} :
          Quiet /\ Len(dbMessages) < MaxHistory /\ SendMessageLookup(s, c, r)
    \/ \E s \in Sockets, threw \in BOOLEAN : SendMessageCreate(s, threw, "skipped")
    \/ \E s \in Sockets : SendMessageEmit(s)
    \/ \E c \in CommunityInputs, u \in Users : Quiet /\ fetchFind(1, c, Absent, u)
    \/ \E other \in Users, u \in Users : Quiet /\ fetchFind(1, Absent, other, u)
    \/ \E threw \in BOOLEAN : fetchQuery(1, threw)
    \/ \E threw \in BOOLEAN : fetchMark(1, threw)
    \/ \E m \in (1..MaxHistory) \cup {NoSuchMessage}, u \in Users :
          Quiet /\ deleteFind(1, m, u)
    \/ \E threw \in BOOLEAN : deleteCheck(1, threw)
    \/ \E threw \in BOOLEAN : deleteModerator(1, threw)

SpecHistorySeq == InitSend /\ [][NextHistorySeq]_vars

\* ================================================================ claims
\* The connections of user u that have connected and not yet disconnected.
OpenConns(u) == {s \in Sockets : sockState[s] = "open" /\ sockUser[s] = u}

OnlineWrite(u) == [user |-> u, isOnline |-> TRUE]
OfflineWrite(u) == [user |-> u, isOnline |-> FALSE]

\* What handleDisconnect starts: nothing while another connection of the user is
\* open, one offline status write and one notifyCommunities call on the last.
DisconnectOfflineOnlyOnLast ==
    last.op = "disconnect" =>
        IF OpenConns(last.user) # {}
        THEN /\ isUserOnline(last.user)
             /\ last.status = <<>>
             /\ last.notify = <<>>
        ELSE /\ ~isUserOnline(last.user)
             /\ last.status = <<OfflineWrite(last.user)>>
             /\ last.notify = <<OfflineWrite(last.user)>>

\* The presence rooms of the communities user u belongs to.
CommunityRoomsOf(u) ==
    [i \in 1..Len(dbUsers[u].communities) |->
        CommunityPresenceRoom(dbUsers[u].communities[i])]

\* C1: when a connection of a user disconnects while another connection of the
\* same user is still open, the user stays online and no offline status write
\* and no offline presence broadcast is issued; when the user's last open
\* connection disconnects the user is offline, the offline status write is
\* issued once, and the offline user_presence event is emitted exactly once to
\* the presence room of each of the user's communities.
C1_OfflineBroadcastOnce ==
    /\ DisconnectOfflineOnlyOnLast
    /\ (last.op = "notify" /\ last.notify = <<OfflineWrite(last.user)>>)
          => last.rooms = CommunityRoomsOf(last.user)

RECURSIVE RoomsWith(_, _)
RoomsWith(t, rs) ==
    IF rs = <<>> THEN 0
    ELSE (IF t \in InRoom(Head(rs)) THEN 1 ELSE 0) + RoomsWith(t, Tail(rs))

\* C5: a join_community step puts the connection into community:<C> and
\* community:<C>:presence only when the community was found and the connection's
\* user is in the members the handler read; when the community was not found or
\* the user is not in those members, the step leaves every room as it was and
\* emits one error event to the connection and nothing else (no user_joined).
C5_JoinOnlyMembers ==
    [][\A s \in Sockets :
         LET h == handlers[s]
             gained == rooms'[s] \ rooms[s]
             joinStep == h.op = "join_community" /\ handlers'[s].op = "idle"
             admitted == h.snap.found /\ IsMember(h.snap.doc, sockUser[s])
         IN /\ gained # {} =>
                 /\ joinStep
                 /\ admitted
                 /\ h.community \in Communities
                 /\ {CommunityRoom(h.community), CommunityPresenceRoom(h.community)}
                        \subseteq rooms'[s]
                 /\ gained \subseteq {CommunityRoom(h.community),
                                      CommunityPresenceRoom(h.community)}
            /\ (joinStep /\ ~admitted) =>
                 /\ rooms' = rooms
                 /\ emitted' = SetToBag({[ev |-> "error", to |-> s, from |-> 0,
                                          arg |-> 0]})
      ]_vars

\* A connection of a user who is not a member of the community is refused while
\* another connection, admitted as a member's, is in the community's rooms.
C5_Witness ==
    /\ last.op = "join_community"
    /\ last.result = "not_member"
    /\ Received(last.sock, "error") = 1
    /\ \E s \in Sockets \ {last.sock}, c \in Communities :
          /\ CommunityRoom(c) \in rooms[s]
          /\ CommunityPresenceRoom(c) \in rooms[s]

\* C6: when the handler of a registered socket event fails on an open
\* connection, the failure is caught and exactly one error event is emitted, to
\* the originating connection, and nothing is emitted to anyone else.
C6_FailureEmitsScopedError ==
    (/\ last.op \in SocketEvents
     /\ last.result \in {"threw", "uncaught"}
     /\ sockState[last.sock] = "open") =>
        /\ last.result # "uncaught"
        /\ emitted = SetToBag({[ev |-> "error", to |-> last.sock, from |-> 0,
                                arg |-> 0]})

\* C7: a community send_message that succeeded delivers new_message once to
\* each connection in room community:<C> other than the sending connection and
\* to no other connection, the sender included; a send_message that failed
\* delivers no new_message.
C7_CommunityFanOutOnce ==
    last.op = "send_message" =>
        IF last.result = "sent"
        THEN dbMessages[last.target].community # Absent =>
                \A t \in Sockets :
                    Received(t, "new_message") =
                        IF t \in InRoom(CommunityRoom(dbMessages[last.target].community))
                                 \ {last.sock}
                        THEN 1 ELSE 0
        ELSE \A t \in Sockets : Received(t, "new_message") = 0

\* A community message was sent from a connection that is in the room together
\* with another connection, which received it.
C7_Witness ==
    /\ last.op = "send_message"
    /\ last.result = "sent"
    /\ dbMessages[last.target].community # Absent
    /\ last.sock \in InRoom(CommunityRoom(dbMessages[last.target].community))
    /\ \E t \in InRoom(CommunityRoom(dbMessages[last.target].community)) \ {last.sock} :
          Received(t, "new_message") = 1

\* C8: a direct send_message that succeeded addresses room user:<R> and the room
\* dm:<min(S,R)>:<max(S,R)>; the sending connection receives the message once,
\* and every other connection receives it once for each of the two rooms it is in.
C8_DirectFanOutBothRooms ==
    (/\ last.op = "send_message"
     /\ last.result = "sent"
     /\ dbMessages[last.target].receiver # Absent) =>
        LET S == dbMessages[last.target].sender
            R == dbMessages[last.target].receiver
            lo == IF S <= R THEN S ELSE R
            hi == IF S <= R THEN R ELSE S
            addressed == <<UserRoom(R), <<"dm", lo, hi>>>>
        IN /\ last.rooms = addressed
           /\ \A t \in Sockets :
                 Received(t, "new_message") =
                     IF t = last.sock
                     THEN (IF sockState[t] = "open" THEN 1 ELSE 0)
                     ELSE RoomsWith(t, addressed)

\* A direct message was sent to another user, whose open connection received it
\* through the room user:<R>, and the sending connection received its copy.
C8_Witness ==
    /\ last.op = "send_message"
    /\ last.result = "sent"
    /\ dbMessages[last.target].receiver # Absent
    /\ dbMessages[last.target].receiver # dbMessages[last.target].sender
    /\ Received(last.sock, "new_message") = 1
    /\ \E t \in InRoom(UserRoom(dbMessages[last.target].receiver)) :
          Received(t, "new_message") = 1


\* The number of times u occurs in arr.
Count(arr, u) == Len(SelectSeq(arr, LAMBDA x : x = u))

\* C9: when vote calls run one at a time, every user is at every moment at most
\* once in the upvotes and downvotes of every post taken together: never in
\* both, and at most once in each.
C9_VotesExclusiveSequential ==
    \A p \in Posts, u \in Users :
        Count(dbPosts[p].upvotes, u) + Count(dbPosts[p].downvotes, u) <= 1

\* A user who had upvoted a post has just downvoted it: the upvote is gone and
\* the downvote is there, next to another user's vote.
C9_Witness ==
    /\ last.op = "votePost"
    /\ last.result = "down"
    /\ Includes(dbPosts[last.target].downvotes, last.user)
    /\ ~Includes(dbPosts[last.target].upvotes, last.user)
    /\ \E v \in Users \ {last.user} : Includes(dbPosts[last.target].upvotes, v)

\* C10: when vote calls interleave, the post as saved once every call has
\* completed keeps every user in at most one of upvotes and downvotes and at
\* most once.
C10_VotesExclusiveInterleaved ==
    (\A k \in Calls : calls[k].op = "idle") =>
        \A p \in Posts, u \in Users :
            /\ ~(Includes(dbPosts[p].upvotes, u) /\ Includes(dbPosts[p].downvotes, u))
            /\ Count(dbPosts[p].upvotes, u) <= 1
            /\ Count(dbPosts[p].downvotes, u) <= 1

\* The save of a vote call changes the votes of no other user.
OtherVotesKept ==
    [][\A p \in Posts, v \in Users :
          (\E k \in Calls : calls[k].op = "votePost" /\ calls'[k] # calls[k]
                            /\ calls[k].user # v) =>
              /\ Count(dbPosts'[p].upvotes, v) = Count(dbPosts[p].upvotes, v)
              /\ Count(dbPosts'[p].downvotes, v) = Count(dbPosts[p].downvotes, v)
      ]_vars

\* A step in which a vote call saved the post.
VoteSaved ==
    /\ \E k \in Calls : calls[k].pc = "findById" /\ calls'[k].pc = "clear"
    /\ last'.op = "votePost"
    /\ last'.result \in {"up", "down"}

\* The memberships (user, set) of post p that the step changes.
VoteChanged(p) ==
    {x \in Users \X {"up", "down"} :
        IF x[2] = "up"
        THEN Includes(dbPosts[p].upvotes, x[1]) # Includes(dbPosts'[p].upvotes, x[1])
        ELSE Includes(dbPosts[p].downvotes, x[1])
                 # Includes(dbPosts'[p].downvotes, x[1])}

\* The vote that is the opposite of a call's direction, as a prior vote.
OppositePrior(vote) == IF vote = "up" THEN "downvoted" ELSE "upvoted"

\* C11: every successful vote call changes exactly one membership of the
\* upvotes and downvotes sets of the post taken together.
C11_VoteChangesExactlyOne ==
    [][VoteSaved => Cardinality(VoteChanged(last'.target)) = 1]_vars

\* C11, amended: a successful vote call changes only memberships of the calling
\* user; exactly one when the user had no vote or the same vote, and exactly two
\* (out of the other set, into this one) when the user had the opposite vote.
C11_VoteChangesOneOrSwitches ==
    [][VoteSaved =>
          /\ \A x \in VoteChanged(last'.target) : x[1] = last'.user
          /\ Cardinality(VoteChanged(last'.target)) =
                IF last'.status[1] = OppositePrior(last'.result) THEN 2 ELSE 1
      ]_vars

\* A user who had downvoted a post has just upvoted it.
C11_Witness ==
    /\ last.op = "votePost"
    /\ last.result = "up"
    /\ last.status = <<"downvoted">>
    /\ PriorVote(dbPosts[last.target], last.user) = "upvoted"

\* The same user has just completed the same vote on the same post twice in a
\* row, with no other completed call in between.
SameVoteTwice ==
    /\ last.op = "votePost"
    /\ last.result \in {"up", "down"}
    /\ last.notify # <<>>
    /\ last.notify[1].user = last.user
    /\ last.notify[1].post = last.target
    /\ last.notify[1].vote = last.result

\* C12: after the same vote was cast twice in a row by a user on a post, the
\* user's membership in upvotes and downvotes is what it was before the first
\* of the two calls.
C12_SameVoteTwiceRestores ==
    SameVoteTwice =>
        PriorVote(dbPosts[last.target], last.user) = last.notify[1].prior

\* C12, amended: after the same vote was cast twice in a row the user's
\* membership is what it was before the first call when the user then had no
\* vote or that same vote; when the user had the opposite vote, the user ends
\* with no vote.
C12_SameVoteTwiceRestoresOrClears ==
    SameVoteTwice =>
        PriorVote(dbPosts[last.target], last.user) =
            IF last.notify[1].prior = OppositePrior(last.result) THEN "none"
            ELSE last.notify[1].prior

\* A user who had upvoted a post has upvoted it twice more and is an upvoter
\* again, while another user's vote on the post stayed.
C12_Witness ==
    /\ SameVoteTwice
    /\ last.result = "up"
    /\ last.notify[1].prior = "upvoted"
    /\ PriorVote(dbPosts[last.target], last.user) = "upvoted"
    /\ \E v \in Users \ {last.user} : PriorVote(dbPosts[last.target], v) # "none"


\* History: the service call that returned last, the post it was about and the
\* community of that post.
Returned == last.op = "returned" /\ last.result = "ok"
ReturnedOp == last.rooms[1]
ReturnedCommunity == last.rooms[2]

\* C13: when createPost, updatePost, deletePost, upvotePost, downvotePost,
\* pinPost or unpinPost has returned successfully (calls running one at a time),
\* the cache holds no key that starts with the listing prefix of the post's
\* community and, unless the call was createPost, no key that starts with the
\* post's prefix; a getPostsByCommunity or getPostById that starts then misses.
C13_MutationLeavesNoEntry ==
    Returned =>
       /\ \A key \in DOMAIN cache :
             /\ ~Matches(key, ListingPattern(ReturnedCommunity))
             /\ ReturnedOp # "createPost" => ~Matches(key, PostPattern(last.target))
       /\ \A sort \in Sorts : ~CacheHit(ListingKey(ReturnedCommunity, sort))
       /\ ReturnedOp # "createPost" =>
             \A viewer \in Viewers : ~CacheHit(PostKey(last.target, viewer))

\* A mutation of an existing post has returned after removing a listing entry
\* and a post entry that earlier reads had stored.
C13_Witness ==
    /\ Returned
    /\ ReturnedOp \in PostMutations \cup {"votePost"}
    /\ \E key \in last.status[1] : Matches(key, ListingPattern(ReturnedCommunity))
    /\ \E key \in last.status[1] : Matches(key, PostPattern(last.target))

\* The cached entries are those a read that ran alone now would store.
CacheFresh ==
    /\ \A p \in Posts, viewer \in Viewers :
          CacheHit(PostKey(p, viewer)) => cache[PostKey(p, viewer)] = dbPosts[p]
    /\ \A c \in Communities, sort \in Sorts :
          CacheHit(ListingKey(c, sort)) =>
             cache[ListingKey(c, sort)] = ListingNow(c, sort)

\* C14: when a read that missed the cache has interleaved with a mutation of
\* the community's posts and both have finished, no cached post or listing
\* differs from what the database holds.
C14_NoEntryFromBeforeMutation ==
    (\A k \in Calls : calls[k].op = "idle") => CacheFresh

\* History: the last step was a successful post.save() of post last.target.
PostSaved ==
    \/ last.op \in PostMutations /\ last.result = "saved"
    \/ last.op = "votePost" /\ last.result \in {"up", "down"}

\* The vote margin of a stored post.
NetVotes(p) == Len(dbPosts[p].upvotes) - Len(dbPosts[p].downvotes)

\* C16: right after every successful save of a post by upvotePost, downvotePost,
\* updatePost, pinPost, unpinPost or deletePost, the stored score is the formula
\* applied to the stored vote margin, the stored comment count and the post's
\* age at the save.
C16_StoredScoreIsFormula ==
    PostSaved =>
       dbPosts[last.target].score =
          Score(NetVotes(last.target), now - dbPosts[last.target].createdAt,
                dbPosts[last.target].commentCount)

\* History: the last step was a save that changed no vote, comment or content.
NoChangeSave == last.op \in {"pinPost", "unpinPost", "deletePost"} /\ last.result = "saved"

C15_UpdateLeavesNoCommunityEntry ==
    (Returned /\ ReturnedOp \in CommunityUpdates \cup {"joinCommunity", "leaveCommunity"})
       => /\ \A flag \in BOOLEAN : ~CacheHit(CommunityKey(ReturnedCommunity, flag))
          /\ ~CacheHit(SlugKey(dbCommunities[ReturnedCommunity].slug))

\* History: the last step ended a read_receipt that markAsRead let through.
ReceiptDone == last.op = "read_receipt" /\ last.result = "ok"

\* C18: when a read_receipt for message m from participant u has been handled,
\* u is in m.readBy, once; message_read was addressed to the sender's inbox
\* room user:<m.sender> exactly when m.sender is not u, and then every other
\* open connection in that room received it.
C18_ReadReceiptNotifiesSender ==
    ReceiptDone =>
       LET m == dbMessages[last.target]
           u == last.user
           inbox == UserRoom(m.sender)
       IN /\ Count(m.readBy, u) = 1
          /\ (\E i \in 1..Len(last.rooms) : last.rooms[i] = inbox) <=> m.sender # u
          /\ m.sender # u =>
                \A t \in InRoom(inbox) \ {last.sock} : Received(t, "message_read") >= 1
          /\ (m.sender = u /\ m.community = Absent) => emitted = EmptyBag

\* The receiver of a message has marked it as read and a connection of the
\* sender received message_read.
C18_Witness ==
    /\ ReceiptDone
    /\ dbMessages[last.target].sender # last.user
    /\ \E t \in Sockets : /\ sockUser[t] = dbMessages[last.target].sender
                          /\ Received(t, "message_read") = 1

\* History: the last step ended a fetch that returned the messages
\* last.status[1] to last.user.
FetchDone ==
    /\ last.op \in {"getCommunityMessages", "getDirectMessages"}
    /\ last.result = "ok"

\* C19: with sendMessage, getCommunityMessages, getDirectMessages and
\* markAsRead run one at a time, every message has at most one deliveredTo
\* entry and at most one readBy entry per user, and right after a fetch by u
\* every message the fetch returned has a deliveredTo entry for u.
C19_DeliveredAndReadOncePerUser ==
    /\ \A i \in 1..Len(dbMessages), u \in Users :
          /\ Count(dbMessages[i].deliveredTo, u) <= 1
          /\ Count(dbMessages[i].readBy, u) <= 1
    /\ FetchDone =>
          \A i \in last.status[1] : Count(dbMessages[i].deliveredTo, last.user) = 1

\* A user other than the sender has fetched a message, which now has the
\* delivery entries of both.
C19_Witness ==
    /\ FetchDone
    /\ \E i \in last.status[1] : /\ dbMessages[i].sender # last.user
                                 /\ Len(dbMessages[i].deliveredTo) = 2

\* The reactions of user u in an array of reactions.
ReactionsOf(reactions, u) == SelectSeq(reactions, LAMBDA r : r.user = u)

\* History: the last step ended an addReaction that saved; last.status holds
\* the reactions before it and the emoji.
ReactionAdded == last.op = "addReaction" /\ last.result = "ok"

\* C20: with addReaction and removeReaction, every message holds at most one
\* reaction per user, and right after addReaction(m, u, e) the one reaction of
\* u on m has emoji e and the reactions of the other users are as they were.
C20_OneReactionPerUser ==
    /\ \A i \in 1..Len(dbMessages), u \in Users :
          Len(ReactionsOf(dbMessages[i].reactions, u)) <= 1
    /\ ReactionAdded =>
          LET now_ == dbMessages[last.target].reactions
              before == last.status[1]
          IN /\ ReactionsOf(now_, last.user) =
                   <<[user |-> last.user, emoji |-> last.status[2]]>>
             /\ WithoutUser(now_, last.user) = WithoutUser(before, last.user)

\* A user who had reacted with another emoji reacted again, on a message that
\* also has a reaction of another user.
C20_Witness ==
    /\ ReactionAdded
    /\ \E i \in 1..Len(last.status[1]) :
          /\ last.status[1][i].user = last.user
          /\ last.status[1][i].emoji # last.status[2]
    /\ WithoutUser(last.status[1], last.user) # <<>>

\* A joinCommunity call is at its community.save() for a community that is
\* active, public and open to join, by a user who has no entry in its members.
JoinOpen(k) ==
    LET c == calls[k] IN
    /\ c.op = "joinCommunity"
    /\ c.pc = "findById"
    /\ calls'[k] # c
    /\ c.community \in Communities
    /\ dbCommunities[c.community].isActive
    /\ dbCommunities[c.community].privacy = "public"
    /\ dbCommunities[c.community].joinMethod = "open"
    /\ ~IsMember(dbCommunities[c.community], c.user)

\* A joinCommunity call makes its User.findByIdAndUpdate.
JoinListed(k) ==
    /\ calls[k].op = "joinCommunity"
    /\ calls[k].pc = "saved"
    /\ calls'[k] # calls[k]

\* C21: joinCommunity(C, A) on an active, public, open community of which A is
\* not a member raises stats.memberCount by exactly 1, appends exactly one
\* entry for A with role 'member' to members, leaving every other entry as it
\* was, and appends C to A's communities list.
C21_JoinAddsOneMember ==
    [][\A k \in Calls :
         /\ JoinOpen(k) =>
               LET c == calls[k].community
                   u == calls[k].user
               IN
               /\ calls'[k].pc = "saved"
               /\ dbCommunities'[c].memberCount = dbCommunities[c].memberCount + 1
               /\ dbCommunities'[c].members =
                      dbCommunities[c].members \o <<[user |-> u, role |-> "member"]>>
               /\ dbCommunities'[c].moderators = dbCommunities[c].moderators
               /\ dbCommunities'[c].owner = dbCommunities[c].owner
               /\ \A x \in Communities \ {c} : dbCommunities'[x] = dbCommunities[x]
         /\ JoinListed(k) =>
               /\ dbUsers'[calls[k].user].communities =
                      dbUsers[calls[k].user].communities \o <<calls[k].community>>
               /\ dbCommunities' = dbCommunities
               /\ calls'[k].pc = "clear"]_vars

\* User 2 has joined community 1: the call returned, the community has the
\* owner's entry and one 'member' entry for user 2, and counts two members.
C21_Witness ==
    /\ last.op = "returned"
    /\ last.rooms = <<"joinCommunity", 1>>
    /\ last.user = 2
    /\ dbCommunities[1].members =
          <<[user |-> 1, role |-> "admin"], [user |-> 2, role |-> "member"]>>
    /\ dbCommunities[1].memberCount = 2
    /\ Count(dbUsers[2].communities, 1) = 1

\* A leaveCommunity call by the owner of its community resumes after the lookup.
OwnerLeaves(k) ==
    /\ calls[k].op = "leaveCommunity"
    /\ calls[k].pc = "findById"
    /\ calls'[k] # calls[k]
    /\ calls[k].community \in Communities
    /\ calls[k].user = dbCommunities[calls[k].community].owner

\* C22: leaveCommunity called by the owner of the community fails with the
\* 'Community owner cannot leave. Transfer ownership first.' error and changes
\* neither the community (members, moderators, stats.memberCount) nor the
\* owner's communities list; the owner has an entry in members in every state.
C22_OwnerCannotLeave ==
    /\ [](\A c \in Communities : IsMember(dbCommunities[c], dbCommunities[c].owner))
    /\ [][\A k \in Calls :
            OwnerLeaves(k) =>
                /\ last'.op = "leaveCommunity"
                /\ last'.result = "owner"
                /\ calls'[k] = Idle
                /\ dbCommunities' = dbCommunities
                /\ dbUsers' = dbUsers]_vars

\* The owner of community 1 called leaveCommunity and was refused, after
\* another user had joined the community.
C22_Witness ==
    /\ last.op = "leaveCommunity"
    /\ last.result = "owner"
    /\ last.user = dbCommunities[1].owner
    /\ last.target = 1
    /\ Len(dbCommunities[1].members) > 1

\* C23: no step of any community operation, by any caller, changes the owner
\* of a community.
C23_OwnerNeverChanges ==
    [][\A c \in Communities : dbCommunities'[c].owner = dbCommunities[c].owner]_vars

\* An updateCommunity request whose body named another user as owner was
\* saved for the owner of community 1.
C23_Witness ==
    /\ last.op = "updateCommunity"
    /\ last.result = "saved"
    /\ last.target = 1
    /\ calls[1].op = "updateCommunity"
    /\ "owner" \in calls[1].data[2].keys
    /\ calls[1].data[2].owner # dbCommunities[1].owner

\* getDirectMessages returned.
DirectFetchDone == last.op = "getDirectMessages" /\ last.result = "ok"

Smaller(a, b) == IF a <= b THEN a ELSE b
Larger(a, b) == IF a <= b THEN b ELSE a

\* The direct messages between a and b, in either direction, that are not
\* deleted, in the order of their creation.
Conversation(a, b) ==
    SelectSeq([i \in 1..Len(dbMessages) |-> i],
              LAMBDA i : /\ dbMessages[i].receiver # Absent
                         /\ {dbMessages[i].sender, dbMessages[i].receiver} = {a, b}
                         /\ ~dbMessages[i].isDeleted)

\* C24: getDirectMessageChannel(A, B) = getDirectMessageChannel(B, A) =
\* dm:<smaller id>:<larger id>; every direct message is stored with the
\* channel of its sender and receiver; and getDirectMessages, whichever of the
\* two calls it, returns the non-deleted messages between them in ascending
\* order of creation.
C24_DirectChannelSymmetric ==
    /\ \A a \in Users, b \in Users :
          /\ getDirectMessageChannel(a, b) = getDirectMessageChannel(b, a)
          /\ getDirectMessageChannel(a, b) = <<"dm", Smaller(a, b), Larger(a, b)>>
    /\ \A i \in 1..Len(dbMessages) :
          dbMessages[i].receiver # Absent =>
             dbMessages[i].channel = <<"dm", Smaller(dbMessages[i].sender,
                                                     dbMessages[i].receiver),
                                       Larger(dbMessages[i].sender,
                                              dbMessages[i].receiver)>>
    /\ DirectFetchDone => last.status[2] = Conversation(last.user, last.target)

\* Two direct messages, one in each direction, are stored; the user with the
\* smaller id fetched the conversation and got both, the earlier one first.
C24_Witness ==
    /\ DirectFetchDone
    /\ last.status[2] = <<1, 2>>
    /\ last.user < last.target
    /\ dbMessages[1].sender = last.target
    /\ dbMessages[1].receiver = last.user
    /\ dbMessages[2].sender = last.user
    /\ dbMessages[2].receiver = last.target

\* createPost has created its post, with content of more than 10 characters
\* and a moderation request that failed or timed out.
CreatedUnmoderated(k) ==
    /\ calls[k].op = "createPost"
    /\ calls[k].pc \in {"created", "clear"}
    /\ calls[k].data = <<"unavailable">>

\* C25: when the moderation service fails or times out during createPost, the
\* post is created all the same and has no aiAnalysis.
C25_ModerationFailureLeavesNoAnalysis ==
    \A k \in Calls :
       CreatedUnmoderated(k) =>
          /\ dbPosts[calls[k].post].exists
          /\ dbPosts[calls[k].post].aiAnalysis = <<>>

\* Exactly one of the two recipients is given.
OneRecipient(c, r) == (c # Absent) # (r # Absent)

\* C26: sendMessage with both communityId and receiverId, or with neither,
\* fails with a 400 error before anything is looked up or stored: no such
\* request is ever past the validation, and every stored message has exactly
\* one of receiver and community.
C26_ExactlyOneRecipient ==
    /\ \A s \in Sockets :
          handlers[s].op = "send_message" =>
             OneRecipient(handlers[s].community, handlers[s].receiver)
    /\ \A i \in 1..Len(dbMessages) :
          OneRecipient(dbMessages[i].community, dbMessages[i].receiver)
    /\ (last.op = "send_message" /\ last.status # <<>>) =>
          /\ ~OneRecipient(last.status[2], last.status[3])
          /\ last.status[1] = "400"
          /\ last.result = "threw"

\* A send_message naming both a community and a receiver was refused with
\* status 400, a message being stored already.
C26_Witness ==
    /\ last.op = "send_message"
    /\ last.status # <<>>
    /\ last.status[1] = "400"
    /\ last.status[2] # Absent
    /\ last.status[3] # Absent
    /\ Len(dbMessages) = 1

\* A post operation resumes after the lookup of its post, which returned a
\* soft-deleted post.
ResumesOnDeleted(k) ==
    /\ \/ calls[k].op \in PostMutations \cup {"votePost"} /\ calls[k].pc = "findById"
       \/ calls[k].op = "getPostById" /\ calls[k].pc = "read"
    /\ calls[k].snap.found
    /\ calls[k].snap.doc.isDeleted
    /\ calls'[k] # calls[k]

\* C27: every post operation on a soft-deleted post (getPostById, updatePost,
\* deletePost, upvotePost, downvotePost, pinPost, unpinPost) fails as soon as
\* it has looked the post up, and changes neither the post nor the stats of a
\* community.
C27_DeletedPostRejectsOperations ==
    [][\A k \in Calls :
         ResumesOnDeleted(k) =>
            /\ calls'[k] = Idle
            /\ last'.result = "threw"
            /\ dbPosts' = dbPosts
            /\ dbCommunities' = dbCommunities]_vars

\* The lock of account u is in force.
LockInForce(u) == isLocked(dbUsers[u])

\* A loginUser call found its account and resumes while the lock it read is in
\* force.
LoginWhileLocked(k) ==
    /\ calls[k].op = "loginUser"
    /\ calls[k].pc = "findOne"
    /\ calls[k].snap.found
    /\ calls[k].snap.doc.lockUntil # Absent
    /\ calls[k].snap.doc.lockUntil > now
    /\ calls'[k] # calls[k]

\* A loginUser call saves after a wrong password.
FailedLogin(k, u) ==
    /\ calls[k].op = "loginUser"
    /\ calls[k].pc = "comparePassword"
    /\ calls[k].user = u
    /\ calls'[k].pc = "failed"

MemberSet(doc) == {doc.members[i].user : i \in 1..Len(doc.members)}

\* The posts and the messages of community c.
PostsOf(posts, c) == {p \in Posts : posts[p].exists /\ posts[p].community = c}

MessagesOf(messages, c) ==
    {i \in 1..Len(messages) : messages[i].community = c}

\* C29: while isActive of a community is false, no step adds a member, a post
\* or a message to it: joinCommunity, createPost, sendMessage and addModerator
\* leave its members, posts and messages as they were.
C29_InactiveCommunityAdmitsNothing ==
    [][\A c \in Communities :
         ~dbCommunities[c].isActive =>
            /\ MemberSet(dbCommunities'[c]) \subseteq MemberSet(dbCommunities[c])
            /\ PostsOf(dbPosts', c) \subseteq PostsOf(dbPosts, c)
            /\ MessagesOf(dbMessages', c) \subseteq MessagesOf(dbMessages, c)]_vars

\* C30: the vote_update payload that handleUpvotePost sends to the post room
\* describes the post as the operation left it: upvotes and downvotes are the
\* sizes of the two arrays, score is the saved score, and userVote is 'up'
\* only if the voting user is in upvotes.
C30_VoteUpdateDescribesPost ==
    (last.op = "upvote_post" /\ last.result = "ok") =>
        LET v == last.status[1]
            post == dbPosts[last.target]
        IN /\ last.rooms = <<PostRoom(last.target)>>
           /\ v.upvotes = Len(post.upvotes)
           /\ v.downvotes = Len(post.downvotes)
           /\ v.score = post.score
           /\ v.userVote = "up" => Includes(post.upvotes, last.user)

\* C31: content that the moderation service flags is refused: createPost with
\* a flagged verdict creates no post, so no stored post carries a flagged
\* analysis and no createPost call is past Post.create with that verdict.
C31_FlaggedContentIsRejected ==
    /\ \A p \in Posts :
          (dbPosts[p].exists /\ dbPosts[p].aiAnalysis # <<>>) =>
              ~dbPosts[p].aiAnalysis[1].flagged
    /\ \A k \in Calls :
          (calls[k].op = "createPost" /\ calls[k].data = <<"flagged">>) =>
              calls[k].pc = "findById"

\* C32: when no community operation is in flight, stats.memberCount of every
\* community is the number of entries of its members list.
C32_MemberCountIsMembers ==
    (\A k \in Calls : calls[k].op = "idle") =>
        \A c \in Communities :
            dbCommunities[c].memberCount = Len(dbCommunities[c].members)

\* C33: when no createPost or deletePost call is in flight, stats.postCount of
\* every community is the number of its posts that are not soft-deleted, and
\* it is never negative.
C33_PostCountIsLivePosts ==
    /\ \A c \in Communities : dbCommunities[c].postCount >= 0
    /\ (\A k \in Calls : calls[k].op = "idle") =>
          \A c \in Communities :
              dbCommunities[c].postCount = LivePosts(dbPosts, c)

\* The entries user u has in the members of a community document.
EntriesOf(doc, u) == Cardinality({i \in 1..Len(doc.members) : doc.members[i].user = u})

\* C34: when no community operation is in flight, an active community is in a
\* user's communities exactly when the user has an entry in its members, and
\* no user has two entries there.
C34_MembershipAgrees ==
    (\A k \in Calls : calls[k].op = "idle") =>
        \A c \in Communities, u \in Users :
            dbCommunities[c].isActive =>
                /\ Includes(dbUsers[u].communities, c) <=> IsMember(dbCommunities[c], u)
                /\ EntriesOf(dbCommunities[c], u) <= 1

\* C38: the isActive flag of a community changes only in a step of a call made
\* by the owner of the community.
C38_OnlyOwnerChangesIsActive ==
    [][\A c \in Communities :
         dbCommunities'[c].isActive # dbCommunities[c].isActive =>
            \E k \in Calls : /\ calls[k].community = c
                             /\ calls[k].user = dbCommunities[c].owner]_vars

\* C35: a connection receives a new_message of community C only while its user
\* is a member of C: a community message that was sent reaches no connection
\* whose user has no entry in the members of C, a leaveCommunity call of that
\* user still in flight apart.
C35_RoomDeliveryOnlyToMembers ==
    (/\ last.op = "send_message"
     /\ last.result = "sent"
     /\ dbMessages[last.target].community # Absent) =>
        LET c == dbMessages[last.target].community IN
        \A t \in Sockets :
            Received(t, "new_message") > 0 =>
                \/ IsMember(dbCommunities[c], sockUser[t])
                \/ \E k \in Calls : /\ calls[k].op = "leaveCommunity"
                                     /\ calls[k].user = sockUser[t]

\* C36: once every status write that was started has completed, the persisted
\* isOnline of every user is isUserOnline(user), in whatever order the writes
\* completed.
C36_StatusSettlesToRegistry ==
    pendingStatus = EmptyBag =>
        \A u \in Users : dbUsers[u].isOnline = isUserOnline(u)

\* The tokens that a refreshAuth of token t issued.
IssuedFrom(t) == {i \in 1..Len(dbTokens) : dbTokens[i].from = t}

\* C37: a refresh token is accepted by refreshAuth at most once, also by calls
\* that interleave: no token has issued two new tokens, and a token that
\* issued one is blacklisted.
C37_RefreshTokenAcceptedOnce ==
    \A t \in 1..Len(dbTokens) :
        /\ Cardinality(IssuedFrom(t)) <= 1
        /\ IssuedFrom(t) # {} => dbTokens[t].blacklisted
====
